---- MODULE Spec2Model ----
(***************************************************************************)
(* Session lifecycle manager and CTAP1 control protocol of codetap         *)
(* (internal/app/service.go).  One session: the lifecycle goroutine of      *)
(* Service.Run, one handleCtlConn goroutine per accepted control            *)
(* connection, one monitorLease goroutine per granted lease, the            *)
(* code-server process and the editors at the other end of the control      *)
(* connections.  Every critical section of sessionState.mu is one step.     *)
(***************************************************************************)
EXTENDS Integers, Sequences, FiniteSets, TLC

\* ---------------------------------------------------------------- bounds
\* number of control connections the listener accepts in one behaviour
NConn == 2
\* largest reading of the wall clock, in clock ticks
MaxTime == 2

\* clock ticks per second: time.RFC3339 keeps whole seconds only
TicksPerSec == 2

\* no connection: what leases yields for a client_id without a lease
None == 0

\* ------------------------------------------------------------ vocabulary
\* Two well-formed commits (40 lowercase hex digits each) and one commit
\* word that is not 40 hex digits (the tests use "abc123" and "def456").
CommitA == "aaaaaaaaaaaaaaaaaaaaaaaaaaaaaaaaaaaaaaaa"
CommitB == "bbbbbbbbbbbbbbbbbbbbbbbbbbbbbbbbbbbbbbbb"
ShortCommit == "def456"
HexCommits == {CommitA, CommitB}
\* the client_ids the editors use
Ids == {"c1", "c2"}
SP == " "

\* cfg of Service.Run, and os.Getpid()
Config == [Name |-> "dev", Commit |-> CommitA, Arch |-> "x64", Folder |-> "/workspace", Pid |-> 4242]

\* Request lines as the client writes them (without the final LF): a
\* sequence of words and single blanks.
ConnectLine(cm, id) == <<"CTAP1", SP, "CONNECT", SP, cm, SP, id>>

Lines ==
    { <<"CTAP1", SP, "INFO">>,
      <<SP, "CTAP1", SP, "INFO", SP>>,
      <<"CTAP1", SP, SP, "INFO">>,
      <<"INFO">>,
      <<"HELLO">>,
      << >>,
      <<"CTAP1", SP, "CONNECT">>,
      <<"CTAP1", SP, "CONNECT", SP>>,
      <<"CTAP1", SP, "CONNECT", SP, CommitB>>,
      <<"CTAP1", SP, "CONNECT", SP, CommitB, SP, "c1", SP, "c2">>,
      <<"CTAP1", SP, "CONNECT", SP, SP, CommitB, SP, "c2">> }
    \cup { ConnectLine(cm, id) : cm \in HexCommits \cup {ShortCommit}, id \in Ids }

\* ------------------------------------------------------- string helpers
RECURSIVE TrimLeft(_)
TrimLeft(s) == IF s # << >> /\ Head(s) = SP THEN TrimLeft(Tail(s)) ELSE s

RECURSIVE TrimRight(_)
TrimRight(s) ==
    IF s # << >> /\ s[Len(s)] = SP THEN TrimRight(SubSeq(s, 1, Len(s) - 1)) ELSE s

\* strings.TrimSpace
TrimSpace(s) == TrimRight(TrimLeft(s))

\* strings.HasPrefix
HasPrefix(s, p) == Len(s) >= Len(p) /\ SubSeq(s, 1, Len(p)) = p

\* strings.Fields: the maximal runs of non-blank characters
RECURSIVE Fields(_)
Fields(s) ==
    IF s = << >> THEN << >>
    ELSE IF Head(s) = SP THEN Fields(Tail(s))
    ELSE <<Head(s)>> \o Fields(Tail(s))

\* The request grammar of the control protocol:
\*   "CTAP1 INFO" | "CTAP1 CONNECT" SP commit SP client_id
\* with commit = 40 lowercase hex digits and client_id = 1*VCHAR.
MatchesGrammar(line) ==
    \/ line = <<"CTAP1", SP, "INFO">>
    \/ /\ Len(line) = 7
       /\ SubSeq(line, 1, 4) = <<"CTAP1", SP, "CONNECT", SP>>
       /\ line[5] \in HexCommits
       /\ line[6] = SP
       /\ line[7] # SP

\* How a request line relates to the request grammar: "grammar" when it
\* matches; otherwise which rule it breaks.
LineClass(line) ==
    LET toks == Fields(line)
        isConnect == Len(toks) >= 2 /\ toks[1] = "CTAP1" /\ toks[2] = "CONNECT"
        isInfo == toks = <<"CTAP1", "INFO">>
    IN  IF MatchesGrammar(line) THEN "grammar"
        ELSE IF isConnect /\ Len(toks) # 4 THEN "tokens"
        ELSE IF isConnect /\ toks[3] \notin HexCommits THEN "commit"
        ELSE IF ~isConnect /\ ~isInfo THEN "unknown"
        ELSE "blanks"

\* ----------------------------------------------------------------- state
VARIABLES
    commit,             \* sessionState.commit
    token,              \* sessionState.token (tokens are numbered 1, 2, ...)
    startedAt,          \* sessionState.startedAt, in clock ticks
    leases,             \* sessionState.leases: client_id -> connection or None
    restartInProgress,  \* sessionState.restartInProgress
    pc,                 \* position of the handler goroutine of each connection
    req,                \* clientCommit and clientID of each running CONNECT handler
    lastLine,           \* the request line read last, and the connection it came from
    reply,              \* the response line written last, and the connection it went to
    conn,               \* each control connection as the server end sees it
    result,             \* restartReq.result of the request of each handler
    lpc,                \* position of the lifecycle goroutine
    lreq,               \* the handler whose restartReq the lifecycle goroutine holds
    newToken,           \* doRestart's newToken
    srvAlive,           \* the code-server process of the latest runner.Start runs
    nextTok,            \* the token the generator yields next
    listening,          \* ctlListener is open
    starts,             \* log of runner.Start calls: <<commit, token>>
    epochs              \* log of the (commit, startedAt) pairs the session was given

\* Startups of Service.Run for one session name in one session directory
VARIABLES
    sp,                 \* position of each Service.Run
    ctlFile,            \* <name>.ctl.sock: absent, stale, or the Run whose listener bound it
    sockFile,           \* <name>.sock: absent, stale, or the Run whose server created it
    srv,                \* the code-server process of each Run
    exit,               \* what each Service.Run returned
    nrestart            \* successful restarts of each Run

\* Discovery (List, Clean) and provisioning next to the startups
VARIABLES
    disc,               \* positions of one Clean and one List call, and what List returned
    prov                \* the calls a recorded Run has made to its collaborators, in order

\* The lifecycle goroutine of Service.Run step by step, with the code-server
\* processes it starts
VARIABLES
    servers,            \* the process of each successful runner.Start, in order
    cur,                \* the server the goroutine's local wait and stop belong to
    fn,                 \* the server sessionState.waitFn and stopFn belong to
    runExit             \* what Service.Run returned

\* The shutdown of HostSide, and the control socket of the relay command
VARIABLES
    hs,                 \* HostSide after the handshake: its goroutines, sockets and subprocess
    rc                  \* the relay command: its commit and its control connections

\* The frame codec of the relay: one byte stream, its writers and its reader
VARIABLES
    wire,               \* bytes written to the stream and not yet read
    wclosed,            \* the writing end of the stream is closed
    todo,               \* the frames each task has still to write
    wpc,                \* position of each task in FrameWriter.Write
    mu,                 \* FrameWriter.mu: the task that holds it, or None
    sent,               \* the frames whose header is on the stream, in stream order
    rcvd,               \* the frames ReadFrame has returned, in order
    rerr                \* the error of the ReadFrame call that failed

\* The relay: HostSide on the host, its subprocess (RunStdio with
\* ContainerSide, or any other command) at the far end of two pipes
VARIABLES
    rcfg,               \* the commit HostSide is given, the subprocess and its configuration
    hpc,                \* position of HostSide
    rpc,                \* position of the subprocess
    rfail,              \* why RunStdio returned an error
    down,               \* frames on the subprocess's stdin, not yet read
    up,                 \* frames on the subprocess's stdout, not yet read
    downClosed,         \* the host has closed (or lost) its end of the pipes
    upClosed,           \* the subprocess has exited
    downFirst,          \* the first frame HostSide has written, if any
    upFirst,            \* the first frame the subprocess has written, if any
    onInit,             \* the arguments of the calls of onInit, in order
    hreads,             \* frames HostSide has read before its reader goroutine runs
    rreads,             \* frames RunStdio has read before ContainerSide runs
    nextID,             \* HostSide's nextID
    vc,                 \* the virtual connections: both sockets and both conns tables
    target,             \* RunStdio's commit
    provisioned,        \* the commit Provision was called with
    started,            \* the commit of the server runner.Start launched
    rsrv,               \* the remote VS Code Server
    rsock               \* the remote server's socket file exists

\* the control connections accepted so far or still to come, and the
\* client_ids the lease table is asked about
Conns == DOMAIN pc
ClientIds == DOMAIN leases

state == <<commit, token, startedAt, leases, restartInProgress>>
sessionVars == <<commit, token, startedAt, leases, restartInProgress, pc, req, lastLine,
                 reply, conn, result, lpc, lreq, newToken, srvAlive, nextTok, listening,
                 starts, epochs>>
startupVars == <<sp, ctlFile, sockFile, srv, exit, nrestart, disc, prov>>
codecVars == <<wire, wclosed, todo, wpc, mu, sent, rcvd, rerr>>
relayVars == <<rcfg, hpc, rpc, rfail, down, up, downClosed, upClosed, downFirst, upFirst, onInit,
               hreads, rreads, nextID, vc, target, provisioned, started, rsrv, rsock>>
handoverVars == <<servers, cur, fn, runExit>>
sideVars == <<hs, rc>>
vars == <<sessionVars, startupVars, codecVars, relayVars, handoverVars, sideVars>>

\* what the control-socket session of one Run leaves alone
outsideVars == <<startupVars, codecVars, relayVars, handoverVars, sideVars>>
\* what the startups leave alone
notStartupVars == <<sessionVars, codecVars, relayVars, handoverVars, disc, prov, sideVars>>
\* what a startup step that calls a collaborator leaves alone
notCallVars == <<sessionVars, codecVars, relayVars, handoverVars, disc, sideVars>>
\* what the codec leaves alone
notCodecVars == <<sessionVars, startupVars, relayVars, handoverVars, sideVars>>
\* what the relay leaves alone
notRelayVars == <<sessionVars, startupVars, codecVars, handoverVars, sideVars>>

\* the calls of no Run are recorded
ProvIdle == [on |-> FALSE, calls |-> << >>]

\* no Clean and no List is called
DiscIdle == [clean |-> "idle", list |-> "idle", entry |-> "none"]

\* no startup is looked at
StartupIdle ==
    /\ sp = << >> /\ srv = << >> /\ exit = << >> /\ nrestart = << >>
    /\ ctlFile = None /\ sockFile = None
    /\ disc = DiscIdle /\ prov = ProvIdle

\* no ReadFrame error
NoErr == [kind |-> "none", msg |-> << >>, type |-> 0, length |-> <<0, 0>>]

\* no stream is looked at
CodecIdle ==
    /\ wire = << >> /\ wclosed = FALSE /\ todo = << >> /\ wpc = << >>
    /\ mu = None /\ sent = << >> /\ rcvd = << >> /\ rerr = NoErr

\* no relay is looked at
RelayIdle ==
    /\ rcfg = << >> /\ hpc = "" /\ rpc = "" /\ rfail = ""
    /\ down = << >> /\ up = << >> /\ downClosed = FALSE /\ upClosed = FALSE
    /\ downFirst = << >> /\ upFirst = << >> /\ onInit = << >>
    /\ hreads = 0 /\ rreads = 0 /\ nextID = 0 /\ vc = << >>
    /\ target = "" /\ provisioned = "" /\ started = ""
    /\ rsrv = "" /\ rsock = FALSE

\* no lifecycle goroutine is followed step by step
HandoverIdle == servers = << >> /\ cur = 0 /\ fn = 0 /\ runExit = ""

\* no HostSide shutdown and no relay control socket is looked at
SideIdle == hs = << >> /\ rc = << >>

OutsideIdle == StartupIdle /\ CodecIdle /\ RelayIdle /\ HandoverIdle /\ SideIdle

\* time.Time.Format(time.RFC3339): sub-second digits are dropped
FormatRFC3339(t) == t \div TicksPerSec

\* a handler that has no CONNECT in hand
NoReq == [commit |-> "", id |-> ""]
NoReply == [h |-> None, kind |-> "none", msg |-> "", commit |-> "", token |-> 0, n |-> 0, detail |-> "",
            started |-> 0,
            name |-> "", arch |-> "", folder |-> "", pid |-> 0]
ErrReply(h, m) == [NoReply EXCEPT !.h = h, !.kind = "ERR", !.msg = m]
\* cm is the commit of the CONNECT line that is answered
OkReply(h, cm, t) == [NoReply EXCEPT !.h = h, !.kind = "OK", !.commit = cm, !.token = t]

\* no control-socket session is looked at
SessionAtRest ==
    /\ commit = Config.Commit /\ token = 1 /\ startedAt = 0
    /\ leases = << >> /\ restartInProgress = FALSE
    /\ pc = << >> /\ req = << >> /\ conn = << >> /\ result = << >>
    /\ lastLine = [h |-> None, line |-> << >>] /\ reply = NoReply
    /\ lpc = "select" /\ lreq = None /\ newToken = 0 /\ srvAlive = FALSE
    /\ nextTok = 2 /\ listening = FALSE
    /\ starts = << >> /\ epochs = {}
    /\ servers = << >> /\ cur = 0 /\ fn = 0 /\ runExit = ""

\* no control-socket session, no HostSide shutdown and no relay control
\* socket is looked at
SessionIdle == SessionAtRest /\ hs = << >> /\ rc = << >>

\* state after Service.Run has started the server and bound the control
\* socket (lines 113-160)
Init ==
    /\ commit = Config.Commit
    /\ token = 1
    /\ startedAt = 0
    /\ leases = [id \in Ids |-> None]
    /\ restartInProgress = FALSE
    /\ pc = [h \in 1..NConn |-> "idle"]
    /\ req = [h \in 1..NConn |-> NoReq]
    /\ lastLine = [h |-> None, line |-> << >>]
    /\ reply = NoReply
    /\ conn = [h \in 1..NConn |-> "open"]
    /\ result = [h \in 1..NConn |-> "none"]
    /\ lpc = "select"
    /\ lreq = None
    /\ newToken = 0
    /\ srvAlive = TRUE
    /\ nextTok = 2
    /\ listening = TRUE
    /\ starts = << <<Config.Commit, 1>> >>
    /\ epochs = { <<Config.Commit, FormatRFC3339(startedAt)>> }
    /\ OutsideIdle

\* connections are numbered in the order the listener accepts them
Accepts(h) ==
    /\ listening
    /\ pc[h] = "idle"
    /\ IF h = 1 THEN TRUE ELSE pc[h - 1] # "idle"

\* the test of line 322 as "fewer than four"
ParseAtLeastFour(line) ==
    LET l == TrimSpace(line)
        parts == Fields(l)
    IN  IF l = <<"CTAP1", SP, "INFO">>
        THEN [cmd |-> "INFO", commit |-> "", id |-> ""]
        ELSE IF HasPrefix(l, <<"CTAP1", SP, "CONNECT", SP>>)
        THEN IF Len(parts) < 4
             THEN [cmd |-> "syntax", commit |-> "", id |-> ""]
             ELSE [cmd |-> "CONNECT", commit |-> parts[3], id |-> parts[4]]
        ELSE [cmd |-> "unknown", commit |-> "", id |-> ""]

\* handleCtlConn, line 271: what the dispatch makes of a request line
Parse(line) ==
    LET l == TrimSpace(line)
        parts == Fields(l)
    IN  IF l = <<"CTAP1", SP, "INFO">>
        THEN [cmd |-> "INFO", commit |-> "", id |-> ""]
        ELSE IF HasPrefix(l, <<"CTAP1", SP, "CONNECT", SP>>)
        THEN IF Len(parts) # 4
             THEN [cmd |-> "syntax", commit |-> "", id |-> ""]
             ELSE [cmd |-> "CONNECT", commit |-> parts[3], id |-> parts[4]]
        ELSE [cmd |-> "unknown", commit |-> "", id |-> ""]

\* variables the handler goroutines never write
lifecycleVars == <<commit, token, startedAt, result, lpc, lreq, newToken, srvAlive,
                   nextTok, listening, starts, epochs>>

\* handleCtlConn, lines 271-275: the read of the request line fails (EOF or
\* the 5 s deadline) and the connection is closed without a reply
readFail(h) ==
    /\ Accepts(h)
    /\ pc' = [pc EXCEPT ![h] = "done"]
    /\ conn' = [conn EXCEPT ![h] = "closed"]
    /\ UNCHANGED <<req, lastLine, reply, leases, restartInProgress>>
    /\ UNCHANGED lifecycleVars
    /\ UNCHANGED outsideVars

\* handleCtlConn, lines 283-286, and handleConnect, lines 322-326
reject(h, msg) ==
    /\ reply' = ErrReply(h, msg)
    /\ pc' = [pc EXCEPT ![h] = "done"]
    /\ conn' = [conn EXCEPT ![h] = "closed"]
    /\ UNCHANGED <<req, leases, restartInProgress>>

\* handleInfo: one critical section reads every reported field
handleInfo(h) ==
    /\ reply' = [NoReply EXCEPT !.h = h, !.kind = "INFO", !.commit = commit,
                                 !.started = FormatRFC3339(startedAt),
                                 !.name = Config.Name, !.arch = Config.Arch,
                                 !.folder = Config.Folder, !.pid = Config.Pid]
    /\ pc' = [pc EXCEPT ![h] = "done"]
    /\ conn' = [conn EXCEPT ![h] = "closed"]
    /\ UNCHANGED <<req, leases, restartInProgress>>

\* the loop of lines 353-357 stopping at the first other lease
ConflictingAny(ls, id) == IF \E i \in ClientIds : i # id /\ ls[i] # None THEN 1 ELSE 0

\* handleConnect, lines 352-357: leases held by other client_ids
Conflicting(ls, id) == Cardinality({i \in ClientIds : i # id /\ ls[i] # None})

\* the check of line 368 left out
RestartAllowedAlways == TRUE

\* handleConnect, line 368
RestartAllowed == ~restartInProgress

\* the lease of the requester's client_id stays in the table
KeepLease(ls, id) == ls

\* handleConnect, lines 333-336: delete(state.leases, clientID)
DropLease(ls, id) == [ls EXCEPT ![id] = None]

\* handleConnect, lines 330-375: the first critical section and the reply
\* or the hand-over that follows it
handleConnect(h, cm, id) ==
    LET old == leases[id]
        dropped == DropLease(leases, id)
        closedOld == IF old # None THEN [conn EXCEPT ![old] = "closed"] ELSE conn
        n == Conflicting(dropped, id)
    IN  IF cm = commit
        THEN /\ leases' = [leases EXCEPT ![id] = h]
             /\ reply' = OkReply(h, cm, token)
             /\ pc' = [pc EXCEPT ![h] = "monitor"]
             /\ req' = [req EXCEPT ![h] = [commit |-> cm, id |-> id]]
             /\ conn' = closedOld
             /\ UNCHANGED restartInProgress
        ELSE IF n > 0
        THEN /\ leases' = dropped
             /\ reply' = [ErrReply(h, "version mismatch") EXCEPT !.commit = commit, !.n = n]
             /\ pc' = [pc EXCEPT ![h] = "done"]
             /\ conn' = [closedOld EXCEPT ![h] = "closed"]
             /\ UNCHANGED <<req, restartInProgress>>
        ELSE IF ~RestartAllowed
        THEN /\ leases' = dropped
             /\ reply' = ErrReply(h, "restart already in progress")
             /\ pc' = [pc EXCEPT ![h] = "done"]
             /\ conn' = [closedOld EXCEPT ![h] = "closed"]
             /\ UNCHANGED <<req, restartInProgress>>
        ELSE /\ leases' = dropped
             /\ restartInProgress' = TRUE
             /\ pc' = [pc EXCEPT ![h] = "send"]
             /\ req' = [req EXCEPT ![h] = [commit |-> cm, id |-> id]]
             /\ conn' = closedOld
             /\ UNCHANGED reply

\* handleCtlConn: accept a connection, read its request line and dispatch
handleCtlConn(h, line) ==
    /\ Accepts(h)
    /\ LET r == Parse(line)
       IN  /\ lastLine' = [h |-> h, line |-> line]
           /\ CASE r.cmd = "INFO" -> handleInfo(h)
                [] r.cmd = "CONNECT" -> handleConnect(h, r.commit, r.id)
                [] r.cmd = "syntax" -> reject(h, "invalid CONNECT syntax")
                [] OTHER -> reject(h, "unknown command")
    /\ UNCHANGED lifecycleVars
    /\ UNCHANGED outsideVars

\* handleConnect, lines 382-399: the restart result has arrived
connectAfterRestart(h) ==
    /\ pc[h] = "await"
    /\ result[h] # "none"
    /\ restartInProgress' = FALSE
    /\ result' = [result EXCEPT ![h] = "none"]
    /\ IF result[h] # "ok"
       THEN /\ reply' = [ErrReply(h, "restart failed") EXCEPT !.detail = result[h]]
            /\ pc' = [pc EXCEPT ![h] = "done"]
            /\ req' = [req EXCEPT ![h] = NoReq]
            /\ conn' = [conn EXCEPT ![h] = "closed"]
            /\ UNCHANGED leases
       ELSE /\ leases' = [leases EXCEPT ![req[h].id] = h]
            /\ reply' = OkReply(h, req[h].commit, token)
            /\ pc' = [pc EXCEPT ![h] = "monitor"]
            /\ UNCHANGED <<req, conn>>
    /\ UNCHANGED lastLine
    /\ UNCHANGED <<commit, token, startedAt, lpc, lreq, newToken, srvAlive,
                   nextTok, listening, starts, epochs>>
    /\ UNCHANGED outsideVars

\* the delete of line 408 never reached
NeverOwner(h) == FALSE

\* monitorLease, line 407
StillOwner(h) == leases[req[h].id] = h

\* monitorLease: conn.Read returned (data, EOF or error)
monitorLease(h) ==
    /\ pc[h] = "monitor"
    /\ conn[h] # "open"
    /\ leases' = IF StillOwner(h) THEN [leases EXCEPT ![req[h].id] = None] ELSE leases
    /\ pc' = [pc EXCEPT ![h] = "done"]
    /\ req' = [req EXCEPT ![h] = NoReq]
    /\ UNCHANGED <<lastLine, reply, conn, restartInProgress>>
    /\ UNCHANGED lifecycleVars
    /\ UNCHANGED outsideVars

\* the editor closes its end of a connection that is still being served
peerClose(h) ==
    /\ pc[h] \in {"send", "await", "monitor"}
    /\ conn[h] \in {"open", "peerData"}
    /\ conn' = [conn EXCEPT ![h] = "peerClosed"]
    /\ UNCHANGED <<req, lastLine, reply, pc, leases, restartInProgress>>
    /\ UNCHANGED lifecycleVars
    /\ UNCHANGED outsideVars

\* the editor writes a byte on a connection that is still being served
peerData(h) ==
    /\ pc[h] \in {"send", "await", "monitor"}
    /\ conn[h] = "open"
    /\ conn' = [conn EXCEPT ![h] = "peerData"]
    /\ UNCHANGED <<req, lastLine, reply, pc, leases, restartInProgress>>
    /\ UNCHANGED lifecycleVars
    /\ UNCHANGED outsideVars

\* variables the lifecycle goroutine never writes
handlerVars == <<req, lastLine, reply, conn, leases, restartInProgress>>

\* the code-server process exits on its own
serverExit ==
    /\ srvAlive
    /\ srvAlive' = FALSE
    /\ UNCHANGED <<commit, token, startedAt, pc, result, lpc, lreq, newToken, nextTok,
                   listening, starts, epochs>>
    /\ UNCHANGED handlerVars
    /\ UNCHANGED outsideVars

\* Run, lines 190-193: a restart request is received while the server
\* runs; the server is stopped and its exit awaited.  (When the server has
\* exited already, taking this branch of the select has the effect of
\* serverExitedPending.)
restartWhileRunning(h) ==
    /\ lpc = "select"
    /\ srvAlive
    /\ pc[h] = "send"
    /\ pc' = [pc EXCEPT ![h] = "await"]
    /\ srvAlive' = FALSE
    /\ lpc' = "doRestart"
    /\ lreq' = h
    /\ UNCHANGED <<commit, token, startedAt, result, newToken, nextTok, listening,
                   starts, epochs>>
    /\ UNCHANGED handlerVars
    /\ UNCHANGED outsideVars

\* Run, lines 171-175: the server has exited and a handler is blocked in
\* the send on restartCh
serverExitedPending(h) ==
    /\ lpc = "select"
    /\ ~srvAlive
    /\ pc[h] = "send"
    /\ pc' = [pc EXCEPT ![h] = "await"]
    /\ lpc' = "doRestart"
    /\ lreq' = h
    /\ UNCHANGED <<commit, token, startedAt, result, newToken, srvAlive, nextTok,
                   listening, starts, epochs>>
    /\ UNCHANGED handlerVars
    /\ UNCHANGED outsideVars

\* Run, lines 186-188: the server has exited and no handler is blocked in
\* the send on restartCh (a handler that has released the lock but not yet
\* reached the send is not a pending request)
serverExited ==
    /\ lpc = "select"
    /\ ~srvAlive
    /\ lpc' = "exited"
    /\ UNCHANGED <<commit, token, startedAt, pc, result, lreq, newToken, srvAlive,
                   nextTok, listening, starts, epochs>>
    /\ UNCHANGED handlerVars
    /\ UNCHANGED outsideVars

\* line 237 left out: the restarted server is given the session's token
ReusedToken == token

\* what tokenGen.Generate yields in doRestart, line 237
FreshToken == nextTok

\* doRestart, lines 228-252, up to the successful wait for the data socket
doRestartStart ==
    /\ lpc = "doRestart"
    /\ newToken' = FreshToken
    /\ nextTok' = nextTok + 1
    /\ starts' = Append(starts, <<req[lreq].commit, newToken'>>)
    /\ srvAlive' = TRUE
    /\ lpc' = "started"
    /\ UNCHANGED <<commit, token, startedAt, pc, result, lreq, listening, epochs>>
    /\ UNCHANGED handlerVars
    /\ UNCHANGED outsideVars

\* doRestart fails before a server runs (lines 232-247), then Run, lines
\* 175-178 and 194-197
doRestartFail(stage) ==
    /\ lpc = "doRestart"
    /\ nextTok' = IF stage = "start" THEN nextTok + 1 ELSE nextTok
    /\ result' = [result EXCEPT ![lreq] = stage]
    /\ lpc' = "exited"
    /\ UNCHANGED <<commit, token, startedAt, pc, lreq, newToken, srvAlive, listening,
                   starts, epochs>>
    /\ UNCHANGED handlerVars
    /\ UNCHANGED outsideVars

\* doRestart, lines 249-252: the new server never creates the data socket
\* and is stopped again
doRestartSocketTimeout ==
    /\ lpc = "doRestart"
    /\ newToken' = FreshToken
    /\ nextTok' = nextTok + 1
    /\ starts' = Append(starts, <<req[lreq].commit, newToken'>>)
    /\ srvAlive' = FALSE
    /\ result' = [result EXCEPT ![lreq] = "socket"]
    /\ lpc' = "exited"
    /\ UNCHANGED <<commit, token, startedAt, pc, lreq, listening, epochs>>
    /\ UNCHANGED handlerVars
    /\ UNCHANGED outsideVars

\* line 256 left out: the token of the previous server is kept
StaleToken == token

\* doRestart, line 256
UpdatedToken == newToken

\* line 257 left out: the start time of the previous server is kept
KeptStartedAt(now) == startedAt

\* doRestart, line 257
UpdatedStartedAt(now) == now

\* doRestart, lines 254-260: the state update, one critical section
doRestartUpdate(now) ==
    /\ lpc = "started"
    /\ commit' = req[lreq].commit
    /\ token' = UpdatedToken
    /\ startedAt' = UpdatedStartedAt(now)
    /\ epochs' = epochs \cup { <<req[lreq].commit, FormatRFC3339(now)>> }
    /\ lpc' = "updated"
    /\ UNCHANGED <<pc, result, lreq, newToken, srvAlive, nextTok, listening, starts>>
    /\ UNCHANGED handlerVars
    /\ UNCHANGED outsideVars

\* Run, lines 180-184 and 199-203: the result is sent and the loop goes on
restartDone ==
    /\ lpc = "updated"
    /\ result' = [result EXCEPT ![lreq] = "ok"]
    /\ lpc' = "select"
    /\ lreq' = None
    /\ UNCHANGED <<commit, token, startedAt, pc, newToken, srvAlive, nextTok, listening,
                   starts, epochs>>
    /\ UNCHANGED handlerVars
    /\ UNCHANGED outsideVars

\* Run, lines 151-157 and 219: done is received, the listener is closed
runReturns ==
    /\ lpc = "exited"
    /\ listening
    /\ listening' = FALSE
    /\ UNCHANGED <<commit, token, startedAt, pc, result, lpc, lreq, newToken, srvAlive,
                   nextTok, starts, epochs>>
    /\ UNCHANGED handlerVars
    /\ UNCHANGED outsideVars

Next ==
    \/ \E h \in Conns : readFail(h)
    \/ \E h \in Conns, line \in Lines : handleCtlConn(h, line)
    \/ \E h \in Conns : connectAfterRestart(h)
    \/ \E h \in Conns : monitorLease(h)
    \/ \E h \in Conns : peerClose(h)
    \/ \E h \in Conns : peerData(h)
    \/ serverExit
    \/ \E h \in Conns : restartWhileRunning(h)
    \/ \E h \in Conns : serverExitedPending(h)
    \/ serverExited
    \/ doRestartStart
    \/ \E stage \in {"provision", "token", "start"} : doRestartFail(stage)
    \/ doRestartSocketTimeout
    \/ \E now \in startedAt..MaxTime : doRestartUpdate(now)
    \/ restartDone
    \/ runReturns

Spec == Init /\ [][Next]_vars

TypeOK ==
    /\ commit \in HexCommits \cup {ShortCommit}
    /\ token \in 1..(Cardinality(Conns) + 1)
    /\ startedAt \in 0..MaxTime
    /\ leases \in [ClientIds -> Conns \cup {None}]
    /\ restartInProgress \in BOOLEAN
    /\ pc \in [Conns -> {"idle", "send", "await", "monitor", "done"}]
    /\ conn \in [Conns -> {"open", "peerData", "peerClosed", "closed"}]
    /\ lpc \in {"select", "doRestart", "started", "updated", "exited"}
    /\ lreq \in Conns \cup {None}
    /\ srvAlive \in BOOLEAN
    /\ listening \in BOOLEAN

\* ------------------------------------------------------------------------
\* The lease table under more editors: three client_ids that send
\* well-formed CONNECT lines only and then stay silent until they close,
\* and a clock that stands still.
NConnLeases == 3
IdsLeases == {"c1", "c2", "c3"}
LinesLeases == { ConnectLine(cm, id) : cm \in HexCommits, id \in IdsLeases }

InitLeases ==
    /\ commit = Config.Commit
    /\ token = 1
    /\ startedAt = 0
    /\ leases = [id \in IdsLeases |-> None]
    /\ restartInProgress = FALSE
    /\ pc = [h \in 1..NConnLeases |-> "idle"]
    /\ req = [h \in 1..NConnLeases |-> NoReq]
    /\ lastLine = [h |-> None, line |-> << >>]
    /\ reply = NoReply
    /\ conn = [h \in 1..NConnLeases |-> "open"]
    /\ result = [h \in 1..NConnLeases |-> "none"]
    /\ lpc = "select"
    /\ lreq = None
    /\ newToken = 0
    /\ srvAlive = TRUE
    /\ nextTok = 2
    /\ listening = TRUE
    /\ starts = << <<Config.Commit, 1>> >>
    /\ epochs = { <<Config.Commit, FormatRFC3339(startedAt)>> }
    /\ OutsideIdle

NextLeases ==
    \/ \E h \in Conns, line \in LinesLeases : handleCtlConn(h, line)
    \/ \E h \in Conns : connectAfterRestart(h)
    \/ \E h \in Conns : monitorLease(h)
    \/ \E h \in Conns : peerClose(h)
    \/ serverExit
    \/ \E h \in Conns : restartWhileRunning(h)
    \/ \E h \in Conns : serverExitedPending(h)
    \/ serverExited
    \/ doRestartStart
    \/ \E stage \in {"provision", "token", "start"} : doRestartFail(stage)
    \/ doRestartSocketTimeout
    \/ doRestartUpdate(startedAt)
    \/ restartDone
    \/ runReturns

SpecLeases == InitLeases /\ [][NextLeases]_vars

\* The lease table under fair scheduling: every monitorLease goroutine
\* whose read has returned is scheduled and gets the session lock in the
\* end.  Two connections share the three client_ids.
NConnFair == 2

InitFair ==
    /\ commit = Config.Commit
    /\ token = 1
    /\ startedAt = 0
    /\ leases = [id \in IdsLeases |-> None]
    /\ restartInProgress = FALSE
    /\ pc = [h \in 1..NConnFair |-> "idle"]
    /\ req = [h \in 1..NConnFair |-> NoReq]
    /\ lastLine = [h |-> None, line |-> << >>]
    /\ reply = NoReply
    /\ conn = [h \in 1..NConnFair |-> "open"]
    /\ result = [h \in 1..NConnFair |-> "none"]
    /\ lpc = "select"
    /\ lreq = None
    /\ newToken = 0
    /\ srvAlive = TRUE
    /\ nextTok = 2
    /\ listening = TRUE
    /\ starts = << <<Config.Commit, 1>> >>
    /\ epochs = { <<Config.Commit, FormatRFC3339(startedAt)>> }
    /\ OutsideIdle

FairSpec ==
    /\ InitFair
    /\ [][NextLeases]_vars
    /\ \A h \in 1..NConnFair : WF_vars(monitorLease(h))

\* ------------------------------------------------------------- claims
\* the lifecycle goroutine is between the stop of the old server and the
\* delivery of the restart result
Restarting == lpc \in {"doRestart", "started", "updated"}

\* the request line read last, as the grammar sees it
LastFields == Fields(lastLine.line)
LastIsConnect ==
    Len(LastFields) = 4 /\ LastFields[1] = "CTAP1" /\ LastFields[2] = "CONNECT"

\* leases held under client_ids other than id
OtherLeases(id) == {i \in ClientIds : i # id /\ leases[i] # None}

\* C1: from the stop of the old server for a restart requested by client_id
\* X until the restart completes, the lease table has no entry whose key
\* differs from X.
C1_OnlyRequesterAttached ==
    Restarting => \A id \in ClientIds : leases[id] # None => id = req[lreq].id

\* C2: an entry is inserted into the lease table only while
\* restartInProgress is false.
C2_NoLeaseWhileRestarting ==
    [][(\E id \in ClientIds : leases'[id] # None /\ leases'[id] # leases[id])
           => ~restartInProgress']_vars

\* handlers between setting and clearing restartInProgress
InRestartSection == {h \in Conns : pc[h] \in {"send", "await"}}

\* C3: at most one restart is in progress: at most one handler is between
\* setting and clearing restartInProgress, at most one request is
\* outstanding on restartCh, the doRestart that executes is the one of that
\* handler, and a different-version CONNECT that finds no other leases
\* while the flag is set is answered "ERR restart already in progress"
\* without enqueuing a request.
C3_AtMostOneRestart ==
    /\ [](/\ Cardinality(InRestartSection) <= 1
          /\ Cardinality({h \in Conns : pc[h] = "send"}) <= 1
          /\ restartInProgress <=> InRestartSection # {}
          /\ Restarting => /\ lreq \in Conns
                           /\ InRestartSection = {lreq}
                           /\ pc[lreq] = "await"
          /\ \A h \in Conns : result[h] # "none" => pc[h] = "await" /\ ~Restarting)
    /\ [][\A h \in Conns :
            ( /\ pc[h] = "idle" /\ pc'[h] # "idle"
              /\ lastLine'.h = h
              /\ LastIsConnect'
              /\ LastFields'[3] # commit
              /\ OtherLeases(LastFields'[4]) = {}
              /\ restartInProgress )
            => /\ reply' = ErrReply(h, "restart already in progress")
               /\ pc'[h] = "done"
               /\ conn'[h] = "closed"
               /\ {g \in Conns : pc'[g] = "send"} = {g \in Conns : pc[g] = "send"}
               /\ UNCHANGED <<restartInProgress, lpc, lreq, result>>]_vars

\* a CONNECT has been answered "restart already in progress" while the
\* restart of another handler is being carried out
C3_Witness ==
    /\ reply.kind = "ERR" /\ reply.msg = "restart already in progress"
    /\ Restarting
    /\ pc[reply.h] = "done"

\* in the log st of runner.Start calls, t is the token passed by the
\* latest start of a server for cm
IsLatestStart(st, cm, t) ==
    \E i \in 1..Len(st) :
        /\ st[i] = <<cm, t>>
        /\ \A j \in (i + 1)..Len(st) : st[j][1] # cm

\* C4: commit and token are always paired: token is the token passed to
\* the runner when the server for the current commit was started, and
\* every "OK <token>" reply to "CTAP1 CONNECT <c> <id>" is written while c
\* is the session commit and carries the token of that pair.
C4_CommitTokenPaired ==
    /\ [](IsLatestStart(starts, commit, token))
    /\ [][(reply' # reply /\ reply'.kind = "OK")
            => /\ reply'.h \in Conns
               /\ pc[reply'.h] = "idle"
                    => lastLine'.h = reply'.h /\ LastIsConnect' /\ LastFields'[3] = reply'.commit
               /\ pc[reply'.h] # "idle" => req[reply'.h].commit = reply'.commit
               /\ reply'.commit = commit'
               /\ reply'.token = token'
               /\ IsLatestStart(starts', reply'.commit, reply'.token)]_vars

\* a CONNECT for commit B has been answered with the token of the restart
\* that made B the session commit
C4_Witness ==
    /\ reply.kind = "OK" /\ reply.commit = CommitB
    /\ commit = CommitB
    /\ reply.token = token /\ token # 1
    /\ Len(starts) >= 2

\* C5: with n >= 1 leases held by client_ids other than the requester, a
\* CONNECT whose commit differs from the session commit is answered
\* "ERR version mismatch: <current> running, <n> client(s) connected", the
\* connection is closed, no restart request is enqueued, the server is not
\* stopped, and commit, token and restartInProgress are unchanged.
C5_VersionMismatch ==
    [][\A h \in Conns :
         ( /\ pc[h] = "idle" /\ pc'[h] # "idle"
           /\ lastLine'.h = h
           /\ LastIsConnect'
           /\ LastFields'[3] # commit
           /\ OtherLeases(LastFields'[4]) # {} )
         => /\ reply' = [ErrReply(h, "version mismatch") EXCEPT
                            !.commit = commit,
                            !.n = Cardinality(OtherLeases(LastFields'[4]))]
            /\ conn'[h] = "closed"
            /\ pc'[h] = "done"
            /\ \A g \in Conns : pc'[g] = "send" => pc[g] = "send"
            /\ UNCHANGED <<commit, token, restartInProgress, srvAlive, lpc, lreq,
                           result, starts>>]_vars

\* a CONNECT has been rejected while two other clients held leases
C5_Witness ==
    /\ reply.kind = "ERR" /\ reply.msg = "version mismatch"
    /\ reply.n = 2
    /\ reply.commit = commit
    /\ Cardinality({id \in ClientIds : leases[id] # None}) = 2
    /\ srvAlive

\* a CONNECT for another commit is read by h while no other client holds a
\* lease and no restart is in progress
SwitchAlone(h) ==
    /\ pc[h] = "idle" /\ pc'[h] # "idle"
    /\ lastLine'.h = h
    /\ LastIsConnect'
    /\ LastFields'[3] # commit
    /\ OtherLeases(LastFields'[4]) = {}
    /\ ~restartInProgress

\* what C6 says of the handler h that learns the outcome of its restart
SwitchSucceeded(h) ==
    /\ reply' = OkReply(h, req[h].commit, token)
    /\ commit = req[h].commit
    /\ starts[Len(starts)] = <<req[h].commit, token>>
    /\ \A i \in 1..(Len(starts) - 1) : starts[i][2] # token
    /\ leases' = [leases EXCEPT ![req[h].id] = h]
    /\ ~restartInProgress'
    /\ UNCHANGED <<commit, token>>

\* C6 as claimed: if no other client holds a lease and no restart is in
\* progress, a CONNECT for another commit B makes the old server stop, a
\* server for B start with a fresh token T2, and is answered "OK T2";
\* afterwards the session commit is B, the requester holds the lease and
\* restartInProgress is false.
C6_SwitchAlwaysSucceeds ==
    [][\A h \in Conns :
         /\ SwitchAlone(h) => pc'[h] = "send" /\ restartInProgress' /\ reply' = reply
         /\ (pc[h] = "await" /\ pc'[h] # "await") => SwitchSucceeded(h)]_vars

\* C6 as amended: such a CONNECT is never rejected and asks for a restart;
\* a server is started only when the previous one has exited; when the
\* restart succeeds the reply is "OK T2" with T2 the fresh token of the
\* server started for B, the session commit is B, the requester holds the
\* lease and restartInProgress is false; when a step of the restart fails
\* the reply is "ERR restart failed", no lease is granted and
\* restartInProgress is false.
C6_SwitchAlone ==
    [][/\ Len(starts') > Len(starts) => ~srvAlive /\ Restarting
       /\ \A h \in Conns :
            /\ SwitchAlone(h) => pc'[h] = "send" /\ restartInProgress' /\ reply' = reply
            /\ (pc[h] = "await" /\ pc'[h] # "await")
                 => IF result[h] = "ok"
                    THEN SwitchSucceeded(h)
                    ELSE /\ reply' = [ErrReply(h, "restart failed") EXCEPT
                                         !.detail = result[h]]
                         /\ conn'[h] = "closed"
                         /\ ~restartInProgress'
                         /\ UNCHANGED <<leases, commit, token>>]_vars

\* the first version switch has been answered: server B runs with token 2
C6_Witness ==
    /\ reply.kind = "OK" /\ reply.token = 2 /\ reply.commit = CommitB
    /\ starts = << <<CommitA, 1>>, <<CommitB, 2>> >>
    /\ commit = CommitB /\ srvAlive
    /\ pc[reply.h] = "monitor" /\ leases[req[reply.h].id] = reply.h
    /\ \A id \in ClientIds : leases[id] \in {None, reply.h}
    /\ ~restartInProgress

\* connection h is in the lease table
HoldsLease(h) == \E id \in ClientIds : leases[id] = h

\* C7: after a lease holder closes its connection its entry is eventually
\* removed from the lease table, and a CONNECT with a different commit
\* that finds every other client's lease released is not rejected with
\* "ERR version mismatch".
C7_LeaseEndsOnClose ==
    /\ \A h \in 1..NConnFair :
         (h \in Conns /\ conn[h] = "peerClosed" /\ HoldsLease(h)) ~> ~HoldsLease(h)
    /\ [][\A h \in Conns :
            ( /\ pc[h] = "idle" /\ pc'[h] # "idle"
              /\ lastLine'.h = h
              /\ LastIsConnect'
              /\ LastFields'[3] # commit
              /\ OtherLeases(LastFields'[4]) = {} )
            => ~(reply'.h = h /\ reply'.msg = "version mismatch")]_vars

\* client c1 held a lease, closed its connection and lost the lease to its
\* monitor; the CONNECT of c2 for another commit then went on to a restart
C7_Witness ==
    /\ pc[1] = "done" /\ conn[1] = "peerClosed"
    /\ \A id \in ClientIds : leases[id] = None
    /\ lastLine = [h |-> 2, line |-> ConnectLine(CommitB, "c2")]
    /\ pc[2] = "send"

\* C8: a CONNECT carrying the client_id of an existing lease closes the
\* previous lease connection and leaves the table mapping that client_id
\* to the new connection only; the monitor of a displaced connection never
\* removes the entry of another connection.
C8_ReplaceOnReconnect ==
    [][\A h \in Conns :
         /\ \A id \in ClientIds :
              (leases[id] = h /\ leases'[id] # h /\ ~(pc[h] = "monitor" /\ pc'[h] = "done"))
                 => conn'[h] = "closed"
         /\ (pc[h] = "monitor" /\ pc'[h] = "done")
              => \A id \in ClientIds : leases[id] # h => leases'[id] = leases[id]
         /\ (pc[h] # "monitor" /\ pc'[h] = "monitor")
              => /\ leases'[req'[h].id] = h
                 /\ \A id \in ClientIds : leases'[id] = h => id = req'[h].id]_vars

\* C9: the fields of one INFO reply come from one critical section: the
\* reply carries the commit and start time the session holds at that
\* moment, a pair the session was given at startup or by one restart, and
\* the identifying fields of the startup.
C9_InfoSnapshot ==
    /\ [](reply.kind = "INFO"
            => /\ <<reply.commit, reply.started>> \in epochs
               /\ reply.name = Config.Name /\ reply.arch = Config.Arch
               /\ reply.folder = Config.Folder /\ reply.pid = Config.Pid
               /\ Len(starts) = 1
                    => reply.commit = Config.Commit /\ reply.started = FormatRFC3339(0))
    /\ [][(reply' # reply /\ reply'.kind = "INFO")
            => /\ reply'.commit = commit /\ reply'.started = FormatRFC3339(startedAt)
               /\ Restarting => <<reply'.commit, reply'.started>> \in epochs]_vars

\* an INFO has been answered after a restart that took place in a later
\* second than the startup
C9_Witness ==
    /\ reply.kind = "INFO"
    /\ reply.commit = CommitB
    /\ reply.started # FormatRFC3339(0)
    /\ Cardinality(epochs) = 2

\* what the claim says of a request line that is rejected
Rejected(h) ==
    /\ reply'.h = h /\ reply'.kind = "ERR"
    /\ conn'[h] = "closed"
    /\ pc'[h] = "done"
    /\ UNCHANGED <<leases, commit, token, restartInProgress, srvAlive, lpc>>
    /\ \A g \in Conns \ {h} : conn'[g] = conn[g]

\* C10 as claimed: every request line that does not match the request
\* grammar is answered with one ERR line, the connection is closed, and
\* leases, commit, token, restartInProgress and the server are as before.
C10_MalformedRejected ==
    [][\A h \in Conns :
         ( /\ pc[h] = "idle" /\ pc'[h] # "idle"
           /\ lastLine'.h = h
           /\ ~MatchesGrammar(lastLine'.line) )
         => Rejected(h)]_vars

\* C10 as amended: a request line with an unknown command or a CONNECT
\* without exactly four tokens is answered with one ERR line, the
\* connection is closed, and leases, commit, token, restartInProgress and
\* the server are as before.
C10_UnknownOrSyntaxRejected ==
    [][\A h \in Conns :
         ( /\ pc[h] = "idle" /\ pc'[h] # "idle"
           /\ lastLine'.h = h
           /\ LineClass(lastLine'.line) \in {"unknown", "tokens"} )
         => Rejected(h)]_vars

\* a CONNECT with five tokens has been rejected while a lease is held
C10_Witness ==
    /\ reply.kind = "ERR" /\ reply.msg = "invalid CONNECT syntax"
    /\ lastLine.h = reply.h /\ Len(Fields(lastLine.line)) = 5
    /\ \E id \in ClientIds : leases[id] # None
    /\ srvAlive

\* ========================================================================
\* Startups of Service.Run (service.go, lines 84-210) that share one session
\* name: the two socket files of the name, the code-server each Run starts,
\* and the exit paths of Run.  The CONNECT that asks for a restart is an
\* input here.
\* ------------------------------------------------------------------------
\* number of Service.Run calls for the name
NProc == 2
\* number of successful restarts of one Run that are followed
MaxRestarts == 3

\* a socket file left behind by a process that is gone
Stale == -1

Procs == DOMAIN sp

\* ctlListener of q is open: Listen has returned, the deferred Close has not run
ListenerOpen(q) ==
    sp[q] \in {"running", "rProvision", "rRemove", "rStart", "rWait", "rStop"}

\* net.DialTimeout on the control path succeeds
isSocketAliveNow == ctlFile \in Procs /\ ListenerOpen(ctlFile)

\* the process dies (exit or SIGTERM); whether it unlinks the socket it
\* created is up to the server
serverGone(p, unlink) ==
    /\ srv' = [srv EXCEPT ![p] = "dead"]
    /\ sockFile' = IF unlink /\ sockFile = p THEN None ELSE sockFile

Returns(p, err) ==
    /\ sp' = [sp EXCEPT ![p] = "returned"]
    /\ exit' = [exit EXCEPT ![p] = err]

\* a call to a collaborator and its outcome, kept for a recorded Run
Called(what, ok) ==
    IF prov.on THEN [prov EXCEPT !.calls = Append(@, <<what, ok>>)] ELSE prov

\* lines 86-94: EnsureDir and Provision
runProvision(p, ok) ==
    /\ sp[p] = "provision"
    /\ IF ok THEN sp' = [sp EXCEPT ![p] = "stat"] /\ UNCHANGED exit
             ELSE Returns(p, "provision")
    /\ UNCHANGED <<ctlFile, sockFile, srv, nrestart>>
    /\ UNCHANGED notStartupVars

\* line 101: os.Stat(ctlSocketPath)
statCtlSocket(p) ==
    /\ sp[p] = "stat"
    /\ sp' = [sp EXCEPT ![p] = IF ctlFile # None THEN "dial" ELSE "rmSock"]
    /\ UNCHANGED <<ctlFile, sockFile, srv, exit, nrestart>>
    /\ UNCHANGED notStartupVars

\* lines 102-108: the liveness probe and the "already running" return
probeCtlSocket(p) ==
    /\ sp[p] = "dial"
    /\ IF isSocketAliveNow
       THEN Returns(p, "already running")
       ELSE sp' = [sp EXCEPT ![p] = "rmCtl"] /\ UNCHANGED exit
    /\ UNCHANGED <<ctlFile, sockFile, srv, nrestart>>
    /\ UNCHANGED notStartupVars

\* line 109: os.Remove(ctlSocketPath)
removeCtlSocket(p) ==
    /\ sp[p] = "rmCtl"
    /\ ctlFile' = None
    /\ sp' = [sp EXCEPT ![p] = "rmSock"]
    /\ UNCHANGED <<sockFile, srv, exit, nrestart>>
    /\ UNCHANGED notStartupVars

\* line 111: os.Remove(socketPath)
removeDataSocket(p) ==
    /\ sp[p] = "rmSock"
    /\ sockFile' = None
    /\ sp' = [sp EXCEPT ![p] = "token"]
    /\ UNCHANGED <<ctlFile, srv, exit, nrestart>>
    /\ UNCHANGED notStartupVars

\* lines 114-117: tokenGen.Generate
generateToken(p, ok) ==
    /\ sp[p] = "token"
    /\ IF ok THEN sp' = [sp EXCEPT ![p] = "start"] /\ UNCHANGED exit
             ELSE Returns(p, "token")
    /\ prov' = Called("Generate", ok)
    /\ UNCHANGED <<ctlFile, sockFile, srv, nrestart>>
    /\ UNCHANGED notCallVars

\* lines 131-134: runner.Start
runnerStart(p, ok) ==
    /\ sp[p] = "start"
    /\ IF ok
       THEN /\ sp' = [sp EXCEPT ![p] = "waitSock"]
            /\ srv' = [srv EXCEPT ![p] = "starting"]
            /\ UNCHANGED exit
       ELSE Returns(p, "start") /\ UNCHANGED srv
    /\ prov' = Called("Start", ok)
    /\ UNCHANGED <<ctlFile, sockFile, nrestart>>
    /\ UNCHANGED notCallVars

\* code-server binds --socket-path; over a file that is in its way it
\* either takes the path or gives up
serverCreatesSocket(p, takes) ==
    /\ srv[p] = "starting"
    /\ IF sockFile = None \/ takes
       THEN sockFile' = p /\ srv' = [srv EXCEPT ![p] = "up"]
       ELSE sockFile' = sockFile /\ srv' = [srv EXCEPT ![p] = "dead"]
    /\ UNCHANGED <<sp, ctlFile, exit, nrestart>>
    /\ UNCHANGED notStartupVars

\* code-server exits on its own
serverExits(p, unlink) ==
    /\ srv[p] \in {"starting", "up"}
    /\ serverGone(p, unlink)
    /\ UNCHANGED <<sp, ctlFile, exit, nrestart>>
    /\ UNCHANGED notStartupVars

\* waitForSocket, lines 608-616: a Stat of the data path succeeds
waitForSocketOk(p) ==
    /\ sp[p] = "waitSock"
    /\ sockFile # None
    /\ sp' = [sp EXCEPT ![p] = "listen"]
    /\ UNCHANGED <<ctlFile, sockFile, srv, exit, nrestart>>
    /\ UNCHANGED notStartupVars

\* waitForSocket: the hundredth Stat fails too
waitForSocketTimeout(p) ==
    /\ sp[p] = "waitSock"
    /\ sockFile = None
    /\ sp' = [sp EXCEPT ![p] = "waitFailed"]
    /\ UNCHANGED <<ctlFile, sockFile, srv, exit, nrestart>>
    /\ UNCHANGED notStartupVars

\* stop(): SIGTERM to the process group of the server, if it still runs
stop(p, unlink) ==
    IF srv[p] \in {"starting", "up"} THEN serverGone(p, unlink)
                                      ELSE UNCHANGED <<srv, sockFile>>

\* lines 138-140: stop() and return
stopAfterTimeout(p, unlink) ==
    /\ sp[p] = "waitFailed"
    /\ stop(p, unlink)
    /\ Returns(p, "server failed to start")
    /\ UNCHANGED <<ctlFile, nrestart>>
    /\ UNCHANGED notStartupVars

\* lines 144-148: net.Listen on the control path; it fails when the path
\* is taken, and may fail for reasons of the operating system
listenCtl(p, ok, unlink) ==
    /\ sp[p] = "listen"
    /\ IF ok /\ ctlFile = None
       THEN /\ ctlFile' = p
            /\ sp' = [sp EXCEPT ![p] = "running"]
            /\ UNCHANGED <<srv, sockFile, exit>>
       ELSE /\ stop(p, unlink)
            /\ Returns(p, "listen ctl socket")
            /\ UNCHANGED ctlFile
    /\ UNCHANGED nrestart
    /\ UNCHANGED notStartupVars

\* lifecycle goroutine, lines 171-189, default branch: the server has
\* exited and no restart request is pending
serverDone(p) ==
    /\ sp[p] = "running"
    /\ srv[p] = "dead"
    /\ sp' = [sp EXCEPT ![p] = "closing"]
    /\ exit' = [exit EXCEPT ![p] = "server exit"]
    /\ UNCHANGED <<ctlFile, sockFile, srv, nrestart>>
    /\ UNCHANGED notStartupVars

\* lifecycle goroutine, lines 173 and 190-193: a restart request is
\* received; a server that still runs is stopped and waited for
restartRequested(p, unlink) ==
    /\ sp[p] = "running"
    /\ nrestart[p] < MaxRestarts
    /\ stop(p, unlink)
    /\ sp' = [sp EXCEPT ![p] = "rProvision"]
    /\ UNCHANGED <<ctlFile, exit, nrestart>>
    /\ UNCHANGED notStartupVars

\* doRestart, lines 232-240: Provision and Generate; a failure ends Run
restartProvision(p, ok) ==
    /\ sp[p] = "rProvision"
    /\ IF ok THEN sp' = [sp EXCEPT ![p] = "rRemove"] /\ UNCHANGED exit
             ELSE /\ sp' = [sp EXCEPT ![p] = "closing"]
                  /\ exit' = [exit EXCEPT ![p] = "restart failed"]
    /\ UNCHANGED <<ctlFile, sockFile, srv, nrestart>>
    /\ UNCHANGED notStartupVars

\* doRestart, line 242: os.Remove(socketPath)
restartRemoveSocket(p) ==
    /\ sp[p] = "rRemove"
    /\ sockFile' = None
    /\ sp' = [sp EXCEPT ![p] = "rStart"]
    /\ UNCHANGED <<ctlFile, srv, exit, nrestart>>
    /\ UNCHANGED notStartupVars

\* doRestart, lines 244-247: runner.Start
restartRunnerStart(p, ok) ==
    /\ sp[p] = "rStart"
    /\ IF ok
       THEN /\ sp' = [sp EXCEPT ![p] = "rWait"]
            /\ srv' = [srv EXCEPT ![p] = "starting"]
            /\ UNCHANGED exit
       ELSE /\ sp' = [sp EXCEPT ![p] = "closing"]
            /\ exit' = [exit EXCEPT ![p] = "restart failed"]
            /\ UNCHANGED srv
    /\ UNCHANGED <<ctlFile, sockFile, nrestart>>
    /\ UNCHANGED notStartupVars

\* doRestart, lines 249 and 254-263: the socket is there, the session is
\* updated and the lifecycle goroutine waits on the new server
restartWaitOk(p) ==
    /\ sp[p] = "rWait"
    /\ sockFile # None
    /\ sp' = [sp EXCEPT ![p] = "running"]
    /\ nrestart' = [nrestart EXCEPT ![p] = @ + 1]
    /\ UNCHANGED <<ctlFile, sockFile, srv, exit>>
    /\ UNCHANGED notStartupVars

\* doRestart, lines 249-252: timeout
restartWaitTimeout(p) ==
    /\ sp[p] = "rWait"
    /\ sockFile = None
    /\ sp' = [sp EXCEPT ![p] = "rStop"]
    /\ UNCHANGED <<ctlFile, sockFile, srv, exit, nrestart>>
    /\ UNCHANGED notStartupVars

\* doRestart, line 250: newStop(), and the failed restart ends Run
restartStopNew(p, unlink) ==
    /\ sp[p] = "rStop"
    /\ stop(p, unlink)
    /\ sp' = [sp EXCEPT ![p] = "closing"]
    /\ exit' = [exit EXCEPT ![p] = "restart failed"]
    /\ UNCHANGED <<ctlFile, nrestart>>
    /\ UNCHANGED notStartupVars

\* UnixListener.Close leaves the socket file in place
CloseKeepsFile(p) == ctlFile

\* UnixListener.Close of a listener made by net.Listen unlinks its path
CloseUnlinks(p) == None

\* deferred cleanup, line 153: ctlListener.Close()
closeCtlListener(p) ==
    /\ sp[p] = "closing"
    /\ ctlFile' = CloseUnlinks(p)
    /\ sp' = [sp EXCEPT ![p] = "removing"]
    /\ UNCHANGED <<sockFile, srv, exit, nrestart>>
    /\ UNCHANGED notStartupVars

\* deferred cleanup, line 154: store.Remove(cfg.Name) removes <name>.sock
storeRemove(p) ==
    /\ sp[p] = "removing"
    /\ sockFile' = None
    /\ sp' = [sp EXCEPT ![p] = "returned"]
    /\ UNCHANGED <<ctlFile, srv, exit, nrestart>>
    /\ UNCHANGED notStartupVars

\* the session directory may hold socket files of a session that is gone
InitStartupOf(n) ==
    /\ sp = [p \in 1..n |-> "provision"]
    /\ srv = [p \in 1..n |-> "none"]
    /\ exit = [p \in 1..n |-> ""]
    /\ nrestart = [p \in 1..n |-> 0]
    /\ ctlFile \in {None, Stale}
    /\ sockFile \in {None, Stale}
    /\ disc = DiscIdle /\ prov = ProvIdle
    /\ SessionIdle /\ CodecIdle /\ RelayIdle

InitStartup == InitStartupOf(NProc)

NextStartup ==
    \/ \E p \in Procs, ok \in BOOLEAN : runProvision(p, ok)
    \/ \E p \in Procs : statCtlSocket(p)
    \/ \E p \in Procs : probeCtlSocket(p)
    \/ \E p \in Procs : removeCtlSocket(p)
    \/ \E p \in Procs : removeDataSocket(p)
    \/ \E p \in Procs, ok \in BOOLEAN : generateToken(p, ok)
    \/ \E p \in Procs, ok \in BOOLEAN : runnerStart(p, ok)
    \/ \E p \in Procs, takes \in BOOLEAN : serverCreatesSocket(p, takes)
    \/ \E p \in Procs, unlink \in BOOLEAN : serverExits(p, unlink)
    \/ \E p \in Procs : waitForSocketOk(p)
    \/ \E p \in Procs : waitForSocketTimeout(p)
    \/ \E p \in Procs, unlink \in BOOLEAN : stopAfterTimeout(p, unlink)
    \/ \E p \in Procs, ok \in BOOLEAN, unlink \in BOOLEAN : listenCtl(p, ok, unlink)
    \/ \E p \in Procs : serverDone(p)
    \/ \E p \in Procs, unlink \in BOOLEAN : restartRequested(p, unlink)
    \/ \E p \in Procs, ok \in BOOLEAN : restartProvision(p, ok)
    \/ \E p \in Procs : restartRemoveSocket(p)
    \/ \E p \in Procs, ok \in BOOLEAN : restartRunnerStart(p, ok)
    \/ \E p \in Procs : restartWaitOk(p)
    \/ \E p \in Procs : restartWaitTimeout(p)
    \/ \E p \in Procs, unlink \in BOOLEAN : restartStopNew(p, unlink)
    \/ \E p \in Procs : closeCtlListener(p)
    \/ \E p \in Procs : storeRemove(p)

\* startups that race for the name
SpecStartup == InitStartup /\ [][NextStartup]_vars

\* one Run that has the name to itself
SpecSession == InitStartupOf(1) /\ [][NextStartup]_vars

\* ------------------------------------------------------- claims C11-C13
\* the step is one of Run p or of the server it started
Acts(p) == sp'[p] # sp[p] \/ srv'[p] # srv[p]

\* C11: while a session of the name is running (its control listener is
\* open), every other startup for the name that probes the control socket
\* aborts with "already running" and no other startup removes or replaces
\* the running session's control or data socket; of startups that race, at
\* most one ends up running.
C11_NameOwnership ==
    /\ [](Cardinality({p \in Procs : ListenerOpen(p)}) <= 1)
    /\ [][\A p, q \in Procs :
            (p # q /\ ListenerOpen(q) /\ Acts(p))
               => /\ ctlFile = q => ctlFile' = q
                  /\ sockFile = q => sockFile' = q
                  /\ (sp[p] = "dial" /\ ctlFile = q)
                        => (sp'[p] = "returned" /\ exit'[p] = "already running")]_vars

\* C12: when Run returns after the server exited with no restart pending,
\* the control listener is closed and neither <name>.sock nor
\* <name>.ctl.sock exists, whatever number of restarts succeeded before.
C12_NormalTermination ==
    \A p \in Procs :
        (sp[p] = "returned" /\ exit[p] = "server exit")
           => (~ListenerOpen(p) /\ ctlFile = None /\ sockFile = None)

\* a Run has returned on the exit of the server after two successful restarts
C12_Witness ==
    \E p \in Procs :
        /\ sp[p] = "returned" /\ exit[p] = "server exit"
        /\ nrestart[p] = 2
        /\ ctlFile = None /\ sockFile = None

\* C13: whenever Run returns after it started a server (data-socket wait
\* timeout, control-socket bind failure, failed restart, server exit), no
\* <name>.sock and no <name>.ctl.sock created by this run remains.
C13_EveryExitRemovesSockets ==
    \A p \in Procs :
        (sp[p] = "returned" /\ srv[p] # "none")
           => (ctlFile # p /\ sockFile # p)

\* ========================================================================
\* The frame codec (internal/adapter/relay/frame.go).  A byte is a number
\* in 0..255 and a stream a sequence of bytes.
\* ------------------------------------------------------------------------
\* number of frames the one writer of the codec specification writes
MaxFrames == 2
\* number of tasks that share one FrameWriter
NWriters == 2

FrameOpen == 1
FrameData == 2
FrameClose == 3
FrameInit == 4
MaxFramePayload == 1048576
HeaderLen == 9
\* the buffer of the follow-up read of recoverTextError
ExtraLen == 1024

Min(a, b) == IF a < b THEN a ELSE b

\* A uint32 is kept as its two 16-bit halves <<high, low>>, so that every
\* value of the type can be written down.
Half == 65536
U32(n) == <<(n \div Half) % Half, n % Half>>
\* u > n, for a number n
ExceedsU32(u, n) == u[1] > n \div Half \/ (u[1] = n \div Half /\ u[2] > n % Half)
\* the number a uint32 of at most MaxFramePayload stands for
IntOf(u) == u[1] * Half + u[2]

\* binary.BigEndian.PutUint32
PutUint32(u) == << u[1] \div 256, u[1] % 256, u[2] \div 256, u[2] % 256 >>

\* the four bytes read with the least significant first
Uint32LittleEndian(b) == << b[4] * 256 + b[3], b[2] * 256 + b[1] >>

\* binary.BigEndian.Uint32
Uint32(b) == << b[1] * 256 + b[2], b[3] * 256 + b[4] >>

Frame(t, id, data) == [type |-> t, id |-> id, data |-> data]
NoFrame == Frame(0, <<0, 0>>, << >>)

\* WriteFrame, lines 33-36: the header; uint32(len(f.Data)) wraps
HeaderOf(f) == <<f.type>> \o PutUint32(f.id) \o PutUint32(U32(Len(f.data)))

\* WriteFrame: everything it writes for f
WriteFrame(f) == HeaderOf(f) \o f.data

\* ReadFrame, line 60
validType(t) == t >= FrameOpen /\ t <= FrameInit

\* every byte counts as printable
looksLikeTextAlways(data) == Len(data) # 0

\* looksLikeText, lines 106-117
looksLikeText(data) ==
    LET printable == Cardinality({i \in 1..Len(data) :
                          \/ (data[i] >= 32 /\ data[i] <= 126)
                          \/ data[i] \in {10, 13, 9}})
    IN  IF Len(data) = 0 THEN FALSE
        ELSE (printable * 100) \div Len(data) > 80

\* strings.TrimRight(s, "\r\n \t")
RECURSIVE TrimRightCutset(_)
TrimRightCutset(s) ==
    IF s # << >> /\ s[Len(s)] \in {13, 10, 32, 9}
    THEN TrimRightCutset(SubSeq(s, 1, Len(s) - 1))
    ELSE s

\* recoverTextError, lines 94-101: header and the bytes the one follow-up
\* Read returned
recoverTextError(header, extra) ==
    LET all == header \o extra
    IN  IF looksLikeText(all)
        THEN [kind |-> "remote command wrote text", msg |-> TrimRightCutset(all),
              type |-> 0, length |-> 0]
        ELSE [kind |-> "invalid frame", msg |-> << >>,
              type |-> header[1], length |-> Uint32(SubSeq(header, 6, 9))]

\* the length field is not looked at
HeaderValidTypeOnly(in) == validType(in[1])

\* the header at the front of in passes line 61
HeaderValid(in) ==
    validType(in[1]) /\ ~ExceedsU32(Uint32(SubSeq(in, 6, 9)), MaxFramePayload)

\* ReadFrame, lines 49-72, on a stream that holds in and then ends; n is
\* the number of bytes the follow-up Read of recoverTextError returns
ReadFrame(in, n) ==
    IF Len(in) < HeaderLen
    THEN [frame |-> NoFrame, rest |-> << >>, recovery |-> FALSE,
          err |-> [NoErr EXCEPT !.kind = IF in = << >> THEN "EOF" ELSE "unexpected EOF"]]
    ELSE LET header == SubSeq(in, 1, HeaderLen)
             length == IntOf(Uint32(SubSeq(header, 6, 9)))
         IN  IF ~HeaderValid(in)
             THEN [frame |-> NoFrame, rest |-> SubSeq(in, HeaderLen + n + 1, Len(in)),
                   recovery |-> TRUE,
                   err |-> recoverTextError(header,
                                            SubSeq(in, HeaderLen + 1, HeaderLen + n))]
             ELSE IF Len(in) - HeaderLen < length
             THEN [frame |-> NoFrame, rest |-> << >>, recovery |-> FALSE,
                   err |-> [NoErr EXCEPT !.kind = "read frame data"]]
             ELSE [frame |-> Frame(header[1], Uint32(SubSeq(header, 2, 5)),
                                   SubSeq(in, HeaderLen + 1, HeaderLen + length)),
                   rest |-> SubSeq(in, HeaderLen + length + 1, Len(in)),
                   recovery |-> FALSE,
                   err |-> NoErr]

\* io.ReadFull does not have to wait for more bytes
Readable(in) ==
    /\ Len(in) >= HeaderLen
    /\ HeaderValid(in) => Len(in) - HeaderLen >= IntOf(Uint32(SubSeq(in, 6, 9)))

Tasks == DOMAIN todo

\* fw.mu is taken whether or not another task holds it
MutexIgnored == TRUE

\* fw.mu.Lock() returns
MutexFree == mu = None

\* FrameWriter.Write, line 132
fwLock(t) ==
    /\ wpc[t] = "idle"
    /\ todo[t] # << >>
    /\ ~wclosed
    /\ MutexFree
    /\ mu' = t
    /\ wpc' = [wpc EXCEPT ![t] = "header"]
    /\ UNCHANGED <<wire, wclosed, todo, sent, rcvd, rerr>>
    /\ UNCHANGED notCodecVars

\* WriteFrame, lines 33-39: w.Write(header)
writeHeader(t) ==
    /\ wpc[t] = "header"
    /\ wire' = wire \o HeaderOf(Head(todo[t]))
    /\ sent' = Append(sent, Head(todo[t]))
    /\ wpc' = [wpc EXCEPT ![t] = IF Len(Head(todo[t]).data) > 0 THEN "payload"
                                                               ELSE "unlock"]
    /\ UNCHANGED <<wclosed, todo, mu, rcvd, rerr>>
    /\ UNCHANGED notCodecVars

\* WriteFrame, lines 40-44: w.Write(f.Data)
writePayload(t) ==
    /\ wpc[t] = "payload"
    /\ wire' = wire \o Head(todo[t]).data
    /\ wpc' = [wpc EXCEPT ![t] = "unlock"]
    /\ UNCHANGED <<wclosed, todo, mu, sent, rcvd, rerr>>
    /\ UNCHANGED notCodecVars

\* FrameWriter.Write, line 133: the deferred Unlock
fwUnlock(t) ==
    /\ wpc[t] = "unlock"
    /\ mu' = IF mu = t THEN None ELSE mu
    /\ todo' = [todo EXCEPT ![t] = Tail(@)]
    /\ wpc' = [wpc EXCEPT ![t] = "idle"]
    /\ UNCHANGED <<wire, wclosed, sent, rcvd, rerr>>
    /\ UNCHANGED notCodecVars

\* the writing end is closed once every task has written its frames
closeWriter ==
    /\ ~wclosed
    /\ \A t \in Tasks : todo[t] = << >>
    /\ wclosed' = TRUE
    /\ UNCHANGED <<wire, todo, wpc, mu, sent, rcvd, rerr>>
    /\ UNCHANGED notCodecVars

\* one call of ReadFrame on the reading end
readFrame(n) ==
    /\ rerr = NoErr
    /\ wclosed \/ Readable(wire)
    /\ n = 0 \/ n <= Min(ExtraLen, Len(wire) - HeaderLen)
    /\ LET r == ReadFrame(wire, n)
       IN  /\ r.recovery \/ n = 0
           /\ wire' = r.rest
           /\ rerr' = r.err
           /\ rcvd' = IF r.err = NoErr THEN Append(rcvd, r.frame) ELSE rcvd
    /\ UNCHANGED <<wclosed, todo, wpc, mu, sent>>
    /\ UNCHANGED notCodecVars

FrameTypes == {FrameOpen, FrameData, FrameClose, FrameInit}
\* 0, 0x00000102 and 0xFFFFFFFF
ConnIDs == {<<0, 0>>, <<0, 258>>, <<65535, 65535>>}
Payloads == {<< >>, <<7, 0>>}
Frames == {Frame(t, id, d) : t \in FrameTypes, id \in ConnIDs, d \in Payloads}

RECURSIVE SeqsUpTo(_, _)
SeqsUpTo(S, n) ==
    IF n = 0 THEN {<< >>}
    ELSE LET shorter == SeqsUpTo(S, n - 1)
         IN  shorter \cup {Append(q, x) : q \in shorter, x \in S}

CodecStart ==
    /\ wire = << >> /\ wclosed = FALSE /\ mu = None
    /\ sent = << >> /\ rcvd = << >> /\ rerr = NoErr
    /\ SessionIdle /\ StartupIdle /\ RelayIdle

\* one writer with up to MaxFrames frames
InitCodec ==
    /\ todo \in [1..1 -> SeqsUpTo(Frames, MaxFrames)]
    /\ wpc = [t \in 1..1 |-> "idle"]
    /\ CodecStart

NextCodec ==
    \/ \E t \in Tasks : fwLock(t)
    \/ \E t \in Tasks : writeHeader(t)
    \/ \E t \in Tasks : writePayload(t)
    \/ \E t \in Tasks : fwUnlock(t)
    \/ closeWriter
    \/ readFrame(0)

SpecCodec == InitCodec /\ [][NextCodec]_vars

\* NWriters tasks with one DATA frame each, on a connection of their own
FramesOf(t) == {Frame(FrameData, U32(t), d) : d \in {<< >>, <<t>>, <<t, t>>}}

InitWriters ==
    /\ todo \in [1..NWriters -> UNION {{<<f>> : f \in FramesOf(t)} : t \in 1..NWriters}]
    /\ \A t \in 1..NWriters : todo[t][1] \in FramesOf(t)
    /\ wpc = [t \in 1..NWriters |-> "idle"]
    /\ CodecStart

SpecWriters == InitWriters /\ [][NextCodec]_vars

\* ReadFrame on what a remote command may put on its output: headers with
\* every kind of type byte and length field, followed by nothing, by
\* binary bytes or by text
InputTypes == {0, FrameOpen, FrameInit, 5, 10, 69, 255}
\* 0x00000001 and "rror"
InputConnIDs == {<<0, 0, 0, 1>>, <<114, 114, 111, 114>>}
\* 0, 2, 2^20, 2^20 + 1, 2^24, ": no" and 0xFFFFFFFF
InputLengths == {<<0, 0, 0, 0>>, <<0, 0, 0, 2>>, <<0, 16, 0, 0>>, <<0, 16, 0, 1>>,
                 <<1, 0, 0, 0>>, <<58, 32, 110, 111>>, <<255, 255, 255, 255>>}
\* nothing, one byte, two bytes, " file\n" and three bytes that end in blanks
InputTails == {<< >>, <<7>>, <<7, 0>>, <<32, 102, 105, 108, 101, 10>>, <<0, 32, 10>>}
Inputs ==
    {<<t>> \o id \o len \o tail :
        t \in InputTypes, id \in InputConnIDs, len \in InputLengths, tail \in InputTails}
    \cup {<< >>, <<69, 114>>, <<FrameData, 0, 0, 0, 1, 0, 0, 0>>}

InitReadFrame ==
    /\ wire \in Inputs
    /\ wclosed = TRUE
    /\ todo = << >> /\ wpc = << >> /\ mu = None
    /\ sent = << >> /\ rcvd = << >> /\ rerr = NoErr
    /\ SessionIdle /\ StartupIdle /\ RelayIdle

NextReadFrame == \E n \in 0..Len(wire) : readFrame(n)

SpecReadFrame == InitReadFrame /\ [][NextReadFrame]_vars

\* ------------------------------------------------------- claims C14-C17
IsPrefix(a, b) == Len(a) <= Len(b) /\ a = SubSeq(b, 1, Len(a))

RECURSIVE Concat(_)
Concat(ss) == IF ss = << >> THEN << >> ELSE Head(ss) \o Concat(Tail(ss))

\* C14: frames with type OPEN, DATA, CLOSE or INIT, any conn_id and any
\* payload come back from ReadFrame as they went into WriteFrame, in the
\* order written and with no byte left over after the last; a frame with
\* an empty payload is written as its 9-byte header and nothing else.
C14_FrameRoundTrip ==
    /\ [](IsPrefix(rcvd, sent))
    /\ []((mu = None /\ Len(rcvd) = Len(sent)) => wire = << >>)
    /\ [](rerr # NoErr => (rerr.kind = "EOF" /\ rcvd = sent /\ wclosed))
    /\ [][\A t \in Tasks :
            (wpc[t] = "header" /\ wpc'[t] # "header" /\ Head(todo[t]).data = << >>)
               => (Len(wire') = Len(wire) + 9 /\ wpc'[t] = "unlock")]_vars

\* two frames went through the stream and came back: one with the largest
\* conn_id and a payload, then one with an empty payload
C14_Witness ==
    /\ Len(rcvd) = 2 /\ rcvd = sent /\ wire = << >>
    /\ rcvd[1].id = <<65535, 65535>> /\ rcvd[1].data = <<7, 0>>
    /\ rcvd[2].id = <<0, 258>> /\ rcvd[2].data = << >>

\* C16: with several tasks in FrameWriter.Write at once the stream is
\* always the frames written so far one after the other, each header
\* directly followed by its payload, the last one possibly still being
\* written; when all tasks are done it parses back as exactly their frames.
C16_FramesAtomic ==
    LET unread == [i \in 1..(Len(sent) - Len(rcvd)) |-> WriteFrame(sent[Len(rcvd) + i])]
    IN  /\ IsPrefix(rcvd, sent)
        /\ IsPrefix(wire, Concat(unread))
        /\ mu = None => wire = Concat(unread)
        /\ rerr # NoErr => rerr.kind = "EOF"
        /\ (wclosed /\ wire = << >>)
              => /\ Len(rcvd) = Cardinality(Tasks)
                 /\ \A t \in Tasks : \E i \in 1..Len(rcvd) : rcvd[i].id = U32(t)

\* task 2 has written its frame and task 1 is between its header and its
\* payload
C16_Witness ==
    /\ Cardinality(Tasks) >= 2
    /\ Len(sent) = 2 /\ sent[1].id = U32(2) /\ sent[1].data # << >>
    /\ wpc[1] = "payload" /\ mu = 1

\* the type byte is outside 0x01..0x04 or the length field is above 2^20
BadHeader(in) ==
    \/ in[1] \notin {1, 2, 3, 4}
    \/ in[6] > 0
    \/ in[7] > 16
    \/ (in[7] = 16 /\ (in[8] > 0 \/ in[9] > 0))

\* more than 80 in 100 of the bytes are printable ASCII, LF, CR or TAB
TextLike(b) ==
    /\ b # << >>
    /\ LET p == Cardinality({i \in 1..Len(b) : b[i] \in (32..126) \cup {9, 10, 13}})
       IN  (p * 100) \div Len(b) > 80

\* m is b without its trailing CR, LF, blanks and TABs
RightTrimOf(m, b) ==
    /\ IsPrefix(m, b)
    /\ \A i \in (Len(m) + 1)..Len(b) : b[i] \in {13, 10, 32, 9}
    /\ m = << >> \/ m[Len(m)] \notin {13, 10, 32, 9}

\* C17: ReadFrame enters text recovery exactly when the nine header bytes
\* have a type outside 0x01..0x04 or a length above 2^20; it then fails
\* with "remote command wrote text" and the right-trimmed bytes it read if
\* these look like text, and with "invalid frame" otherwise; a valid header
\* followed by a short payload fails with "read frame data".
C17_ReadErrorClasses ==
    [][(rerr' # rerr \/ rcvd' # rcvd) =>
         LET read == SubSeq(wire, 1, Len(wire) - Len(wire'))
             recovery == rerr'.kind \in {"remote command wrote text", "invalid frame"}
             short == Len(wire) - 9 < wire[6] * 16777216 + wire[7] * 65536
                                        + wire[8] * 256 + wire[9]
         IN  /\ recovery <=> (Len(wire) >= 9 /\ BadHeader(wire))
             /\ rerr'.kind = "remote command wrote text"
                   => (TextLike(read) /\ RightTrimOf(rerr'.msg, read))
             /\ rerr'.kind = "invalid frame" => ~TextLike(read)
             /\ (Len(wire) >= 9 /\ ~BadHeader(wire) /\ short)
                   <=> rerr'.kind = "read frame data"]_vars

\* "Error: no file" followed by a line feed was read whole and reported
\* without the line feed
C17_Witness ==
    /\ rerr.kind = "remote command wrote text"
    /\ rerr.msg = <<69, 114, 114, 111, 114, 58, 32, 110, 111, 32, 102, 105, 108, 101>>
    /\ wire = << >>

\* ==================================================================
\* The relay (internal/adapter/relay/host.go, Service.RunStdio).  The
\* pipes carry whole frames: FrameWriter.Write puts each frame on the
\* stream in one piece and ReadFrame takes it off in one piece.
\* ==================================================================
\* editor connections that reach the host's listener in one behaviour
NVc == 2
\* bytes the sending end of the first virtual connection sends; on every
\* other connection it sends one
MaxBytes == 2

\* a commit the remote end resolves on its own
CommitC == "cccccccccccccccccccccccccccccccccccccccc"

\* a frame on a pipe; the payload of INIT is a commit, of DATA a chunk
Msg(t, id, cm, data) == [type |-> t, id |-> id, commit |-> cm, data |-> data]
\* bytes on a pipe that are no frame header
Garbage == Msg(0, 0, "", << >>)

\* a frame written last is read first
PutFront(pipe, f) == <<f>> \o pipe

\* fw.Write: the frame goes to the end of what the pipe holds
Put(pipe, f) == Append(pipe, f)

\* the first frame written to a pipe stays on record
First(rec, f) == IF rec = << >> THEN <<f>> ELSE rec

VcIds == DOMAIN vc

\* the i-th byte the editor (the server) sends on connection c
EditorByte(c, i) == 10 * c + i
ServerByte(c, i) == 100 + 10 * c + i

\* a connection nobody has accepted yet
NewVc(c, ne, ns) ==
    [edOut |-> [i \in 1..ne |-> EditorByte(c, i)],
     hsock |-> "none", hmap |-> FALSE, hgo |-> FALSE,
     nearRead |-> << >>, edWritten |-> << >>,
     srvOut |-> [i \in 1..ns |-> ServerByte(c, i)],
     csock |-> "none", cmap |-> FALSE, cgo |-> FALSE,
     srvRead |-> << >>, farWritten |-> << >>]

\* frames a pipe holds before a write to it blocks
PipeCap == 2

\* a write to the subprocess's stdin fails once the subprocess is gone, and
\* waits while the pipe is full
StdinBroken == upClosed \/ downClosed
StdinRoom == StdinBroken \/ Len(down) < PipeCap
StdoutRoom == downClosed \/ Len(up) < PipeCap
\* a write to the host fails once the host is gone
StdoutBroken == downClosed

\* conns.Range(close): every connection in the table is closed
HostCloseAll(v) ==
    [c \in DOMAIN v |-> IF v[c].hmap THEN [v[c] EXCEPT !.hsock = "closed"] ELSE v[c]]
ContCloseAll(v) ==
    [c \in DOMAIN v |-> IF v[c].cmap THEN [v[c] EXCEPT !.csock = "closed"] ELSE v[c]]
\* the process is gone: its descriptors are closed, its goroutines too
ProcessGone(v) ==
    [c \in DOMAIN v |->
        [v[c] EXCEPT !.csock = IF @ = "none" THEN "none" ELSE "closed",
                     !.cmap = FALSE, !.cgo = FALSE]]

\* buf[:n] of the Read that follows `from` bytes already read
ChunkStale(buf, from, k) == SubSeq(buf, 1, k)

Chunk(buf, from, k) == SubSeq(buf, from + 1, from + k)

\* a DATA frame without payload goes out where CLOSE should
EmptyDataFrame(id) == Msg(FrameData, id, "", << >>)

\* Frame{Type: FrameClose, ConnID: id}
CloseFrame(id) == Msg(FrameClose, id, "", << >>)

\* ------------------------------------------------------------ HostSide
\* fw.Write(INIT, commit)
hostWriteInit ==
    /\ hpc = "writeInit"
    /\ StdinRoom
    /\ IF StdinBroken
       THEN /\ hpc' = "failed"
            /\ downClosed' = TRUE
            /\ UNCHANGED <<down, downFirst>>
       ELSE /\ down' = Put(down, Msg(FrameInit, 0, rcfg.hcommit, << >>))
            /\ downFirst' = First(downFirst, Msg(FrameInit, 0, rcfg.hcommit, << >>))
            /\ hpc' = "readAck"
            /\ UNCHANGED downClosed
    /\ UNCHANGED <<rcfg, rpc, rfail, up, upClosed, upFirst, onInit, hreads, rreads, nextID, vc,
                   target, provisioned, started, rsrv, rsock>>
    /\ UNCHANGED notRelayVars

\* any frame passes for the ack
AnyFrameIsAck(f) == TRUE

\* ackFrame.Type != FrameInit fails the handshake
IsAck(f) == f.type = FrameInit

\* ackFrame, err := ReadFrame(stdoutPipe), and what follows it
hostReadAck ==
    /\ hpc = "readAck"
    /\ up # << >> \/ upClosed
    /\ IF up = << >>
       THEN /\ hpc' = "failed"
            /\ downClosed' = TRUE
            /\ UNCHANGED <<up, hreads, onInit>>
       ELSE /\ up' = Tail(up)
            /\ IF Head(up).type = 0
               THEN /\ hpc' = "failed"
                    /\ downClosed' = TRUE
                    /\ UNCHANGED <<hreads, onInit>>
               ELSE /\ hreads' = hreads + 1
                    /\ IF ~IsAck(Head(up))
                       THEN /\ hpc' = "failed"
                            /\ downClosed' = TRUE
                            /\ UNCHANGED onInit
                       ELSE /\ onInit' = Append(onInit, Head(up).commit)
                            /\ hpc' = "mux"
                            /\ UNCHANGED downClosed
    /\ UNCHANGED <<rcfg, rpc, rfail, down, upClosed, downFirst, upFirst, rreads, nextID, vc,
                   target, provisioned, started, rsrv, rsock>>
    /\ UNCHANGED notRelayVars

\* the acceptor: Accept, nextID.Add(1), conns.Store, the OPEN frame, and
\* the connection's goroutine
hostAccept ==
    /\ hpc = "mux"
    /\ nextID < Len(vc)
    /\ StdinRoom
    /\ LET id == nextID + 1
       IN  /\ nextID' = id
           /\ IF StdinBroken
              THEN /\ vc' = [vc EXCEPT ![id].hsock = "closed"]
                   /\ UNCHANGED <<down, downFirst>>
              ELSE /\ vc' = [vc EXCEPT ![id].hsock = "open", ![id].hmap = TRUE,
                                       ![id].hgo = TRUE]
                   /\ down' = Put(down, Msg(FrameOpen, id, "", << >>))
                   /\ downFirst' = First(downFirst, Msg(FrameOpen, id, "", << >>))
    /\ UNCHANGED <<rcfg, hpc, rpc, rfail, up, downClosed, upClosed, upFirst, onInit, hreads,
                   rreads, target, provisioned, started, rsrv, rsock>>
    /\ UNCHANGED notRelayVars

\* the connection's goroutine: c.Read returns k bytes, which go out as one
\* DATA frame
hostConnRead(c, k) ==
    /\ vc[c].hgo /\ vc[c].hsock = "open"
    /\ StdinRoom
    /\ k >= 1 /\ Len(vc[c].nearRead) + k <= Len(vc[c].edOut)
    /\ LET chunk == Chunk(vc[c].edOut, Len(vc[c].nearRead), k)
       IN  IF StdinBroken
           THEN /\ vc' = [vc EXCEPT ![c].nearRead = @ \o chunk, ![c].hsock = "closed",
                                    ![c].hmap = FALSE, ![c].hgo = FALSE]
                /\ UNCHANGED <<down, downFirst>>
           ELSE /\ vc' = [vc EXCEPT ![c].nearRead = @ \o chunk]
                /\ down' = Put(down, Msg(FrameData, c, "", chunk))
                /\ downFirst' = First(downFirst, Msg(FrameData, c, "", chunk))
    /\ UNCHANGED <<rcfg, hpc, rpc, rfail, up, downClosed, upClosed, upFirst, onInit, hreads,
                   rreads, nextID, target, provisioned, started, rsrv, rsock>>
    /\ UNCHANGED notRelayVars

\* the connection's goroutine: c.Read fails (the connection was closed on
\* this side, or all the editor's bytes are read and the editor has closed)
hostConnReadErr(c) ==
    /\ vc[c].hgo
    /\ \/ vc[c].hsock = "closed"
       \/ Len(vc[c].nearRead) = Len(vc[c].edOut)
    /\ StdinRoom
    /\ vc' = [vc EXCEPT ![c].hsock = "closed", ![c].hmap = FALSE, ![c].hgo = FALSE]
    /\ IF StdinBroken
       THEN UNCHANGED <<down, downFirst>>
       ELSE /\ down' = Put(down, CloseFrame(c))
            /\ downFirst' = First(downFirst, CloseFrame(c))
    /\ UNCHANGED <<rcfg, hpc, rpc, rfail, up, downClosed, upClosed, upFirst, onInit, hreads,
                   rreads, nextID, target, provisioned, started, rsrv, rsock>>
    /\ UNCHANGED notRelayVars

\* OPEN frames take the CLOSE branch too
caseFrameCloseOrOpen(t) == t \in {FrameClose, FrameOpen}

\* case FrameClose: of the reader goroutine's switch
caseFrameClose(t) == t = FrameClose

\* the reader goroutine takes one frame and dispatches it; a write to an
\* editor that has closed its end fails (~ok)
hostDispatch(ok) ==
    /\ hpc = "mux"
    /\ up # << >>
    /\ LET f == Head(up)
           known == f.id \in VcIds /\ vc[f.id].hmap
       IN  /\ up' = Tail(up)
           /\ IF f.type = 0
              THEN \* ReadFrame fails: done <- err, and HostSide winds up
                   /\ vc' = HostCloseAll(vc)
                   /\ hpc' = "done"
                   /\ downClosed' = TRUE
                   /\ UNCHANGED hreads
              ELSE /\ UNCHANGED <<hreads, hpc, downClosed>>
                   /\ IF f.type = FrameData /\ known
                      THEN IF ~ok \/ vc[f.id].hsock = "closed"
                           THEN vc' = [vc EXCEPT ![f.id].hsock = "closed",
                                                 ![f.id].hmap = FALSE]
                           ELSE vc' = [vc EXCEPT ![f.id].edWritten = @ \o f.data]
                      ELSE /\ ok
                           /\ IF caseFrameClose(f.type) /\ known
                              THEN vc' = [vc EXCEPT ![f.id].hsock = "closed",
                                                    ![f.id].hmap = FALSE]
                              ELSE UNCHANGED vc
    /\ UNCHANGED <<rcfg, rpc, rfail, down, upClosed, downFirst, upFirst, onInit, rreads, nextID,
                   target, provisioned, started, rsrv, rsock>>
    /\ UNCHANGED notRelayVars

\* the reader goroutine finds the subprocess's stdout at its end: HostSide
\* closes every connection and returns
hostReaderDone ==
    /\ hpc = "mux"
    /\ up = << >> /\ upClosed
    /\ vc' = HostCloseAll(vc)
    /\ hpc' = "done"
    /\ downClosed' = TRUE
    /\ UNCHANGED <<rcfg, rpc, rfail, down, up, upClosed, downFirst, upFirst, onInit, hreads,
                   rreads, nextID, target, provisioned, started, rsrv, rsock>>
    /\ UNCHANGED notRelayVars

\* ----------------------------------------------------------- RunStdio
\* initPhase := cfg.Commit == ""
initPhase == rcfg.rcommit = ""

\* resolveCommit(): the injected fallback, if there is one
resolveCommit == [err |-> rcfg.fallback = "error",
                  commit |-> IF rcfg.fallback = "commit" THEN CommitC ELSE ""]

\* RunStdio returns err: the process exits
RemoteFails(why) ==
    /\ rpc' = "failed"
    /\ rfail' = why
    /\ upClosed' = TRUE

\* the local resolution alone, whatever the INIT frame carries
CommitOfIgnoringPayload(payload) ==
    IF rcfg.fallback = "none" THEN "" ELSE resolveCommit.commit

\* the commit RunStdio goes on with after an INIT frame with this payload
CommitOf(payload) ==
    IF payload # "" THEN payload
    ELSE IF rcfg.fallback = "none" THEN "" ELSE resolveCommit.commit

\* readInitCommit(stdin) and the choice of the commit
readInit ==
    /\ rpc = "readInit"
    /\ down # << >> \/ downClosed
    /\ IF down = << >>
       THEN /\ RemoteFails("read init frame")
            /\ UNCHANGED <<down, rreads, target>>
       ELSE /\ down' = Tail(down)
            /\ rreads' = rreads + 1
            /\ IF Head(down).type # FrameInit
               THEN /\ RemoteFails("expected FrameInit")
                    /\ UNCHANGED target
               ELSE IF Head(down).commit = "" /\ rcfg.fallback # "none" /\ resolveCommit.err
               THEN /\ RemoteFails("resolve commit")
                    /\ UNCHANGED target
               ELSE IF CommitOf(Head(down).commit) = ""
               THEN /\ RemoteFails("no commit available")
                    /\ UNCHANGED target
               ELSE /\ target' = CommitOf(Head(down).commit)
                    /\ rpc' = "provision"
                    /\ UNCHANGED <<rfail, upClosed>>
    /\ UNCHANGED <<rcfg, hpc, up, downClosed, downFirst, upFirst, onInit, hreads, nextID, vc,
                   provisioned, started, rsrv, rsock>>
    /\ UNCHANGED notRelayVars

\* s.Provision(commit, arch), then the stale temporary socket is removed
remoteProvision(ok) ==
    /\ rpc = "provision"
    /\ provisioned' = target
    /\ IF ok
       THEN /\ rpc' = "start"
            /\ rsock' = FALSE
            /\ UNCHANGED <<rfail, upClosed>>
       ELSE /\ RemoteFails("provision")
            /\ UNCHANGED rsock
    /\ UNCHANGED <<rcfg, hpc, down, up, downClosed, downFirst, upFirst, onInit, hreads, rreads,
                   nextID, vc, target, started, rsrv>>
    /\ UNCHANGED notRelayVars

\* s.runner.Start(binPath, tmpSocket, "")
remoteStart(ok) ==
    /\ rpc = "start"
    /\ IF ok
       THEN /\ rpc' = "waitSocket"
            /\ rsrv' = "starting"
            /\ started' = target
            /\ UNCHANGED <<rfail, upClosed>>
       ELSE /\ RemoteFails("start")
            /\ UNCHANGED <<rsrv, started>>
    /\ UNCHANGED <<rcfg, hpc, down, up, downClosed, downFirst, upFirst, onInit, hreads, rreads,
                   nextID, vc, target, provisioned, rsock>>
    /\ UNCHANGED notRelayVars

\* the server binds its socket
remoteServerListens ==
    /\ rsrv = "starting"
    /\ rsrv' = "up"
    /\ rsock' = TRUE
    /\ UNCHANGED <<rcfg, hpc, rpc, rfail, down, up, downClosed, upClosed, downFirst, upFirst,
                   onInit, hreads, rreads, nextID, vc, target, provisioned, started>>
    /\ UNCHANGED notRelayVars

\* the server exits on its own
remoteServerExits ==
    /\ rsrv \in {"starting", "up"}
    /\ rsrv' = "dead"
    /\ UNCHANGED <<rcfg, hpc, rpc, rfail, down, up, downClosed, upClosed, downFirst, upFirst,
                   onInit, hreads, rreads, nextID, vc, target, provisioned, started, rsock>>
    /\ UNCHANGED notRelayVars

\* waitForSocket finds the socket; with initPhase the INIT ack is written
remoteWaitOk ==
    /\ rpc = "waitSocket"
    /\ rsock
    /\ rpc' = IF initPhase THEN "writeAck" ELSE "mux"
    /\ UNCHANGED <<rcfg, hpc, rfail, down, up, downClosed, upClosed, downFirst, upFirst, onInit,
                   hreads, rreads, nextID, vc, target, provisioned, started, rsrv, rsock>>
    /\ UNCHANGED notRelayVars

\* waitForSocket gives up: stop(), and RunStdio returns
remoteWaitTimeout ==
    /\ rpc = "waitSocket"
    /\ ~rsock
    /\ rsrv' = "dead"
    /\ RemoteFails("server failed to start")
    /\ UNCHANGED <<rcfg, hpc, down, up, downClosed, downFirst, upFirst, onInit, hreads, rreads,
                   nextID, vc, target, provisioned, started, rsock>>
    /\ UNCHANGED notRelayVars

\* relay.WriteFrame(stdout, INIT, commit)
remoteWriteAck ==
    /\ rpc = "writeAck"
    /\ StdoutRoom
    /\ IF StdoutBroken
       THEN /\ rsrv' = "dead"
            /\ RemoteFails("write init ack")
            /\ UNCHANGED <<up, upFirst>>
       ELSE /\ up' = Put(up, Msg(FrameInit, 0, target, << >>))
            /\ upFirst' = First(upFirst, Msg(FrameInit, 0, target, << >>))
            /\ rpc' = "mux"
            /\ UNCHANGED <<rfail, upClosed, rsrv>>
    /\ UNCHANGED <<rcfg, hpc, down, downClosed, downFirst, onInit, hreads, rreads, nextID, vc,
                   target, provisioned, started, rsock>>
    /\ UNCHANGED notRelayVars

\* case err := <-serverErr: the server is gone and RunStdio returns
remoteServerErr ==
    /\ rpc = "mux"
    /\ rsrv = "dead"
    /\ rpc' = "exited"
    /\ upClosed' = TRUE
    /\ vc' = ProcessGone(vc)
    /\ UNCHANGED <<rcfg, hpc, rfail, down, up, downClosed, downFirst, upFirst, onInit, hreads,
                   rreads, nextID, target, provisioned, started, rsrv, rsock>>
    /\ UNCHANGED notRelayVars

\* -------------------------------------------------------- ContainerSide
\* ContainerSide returns; RunStdio stops the server and returns too
ContainerReturns ==
    /\ rpc' = "exited"
    /\ upClosed' = TRUE
    /\ rsrv' = "dead"

\* the loop takes one frame from stdin and dispatches it; a write to a
\* server that has closed its end fails (~ok)
contDispatch(ok) ==
    /\ rpc = "mux"
    /\ down # << >>
    /\ LET f == Head(down)
           known == f.id \in VcIds /\ vc[f.id].cmap
       IN  /\ down' = Tail(down)
           /\ IF f.type = FrameOpen /\ f.id \in VcIds
              THEN IF ok /\ rsrv = "up"
                   THEN \* net.Dial succeeds
                        /\ vc' = [vc EXCEPT ![f.id].csock = "open", ![f.id].cmap = TRUE,
                                            ![f.id].cgo = TRUE]
                        /\ UNCHANGED <<up, upFirst, rpc, upClosed, rsrv>>
                   ELSE IF StdoutBroken
                   THEN /\ ContainerReturns
                        /\ vc' = ProcessGone(vc)
                        /\ UNCHANGED <<up, upFirst>>
                   ELSE /\ StdoutRoom
                        /\ up' = Put(up, CloseFrame(f.id))
                        /\ upFirst' = First(upFirst, CloseFrame(f.id))
                        /\ UNCHANGED <<vc, rpc, upClosed, rsrv>>
              ELSE IF f.type = FrameData /\ known
              THEN IF ok /\ rsrv = "up" /\ vc[f.id].csock = "open"
                   THEN /\ vc' = [vc EXCEPT ![f.id].farWritten = @ \o f.data]
                        /\ UNCHANGED <<up, upFirst, rpc, upClosed, rsrv>>
                   ELSE IF StdoutBroken
                   THEN /\ ContainerReturns
                        /\ vc' = ProcessGone(vc)
                        /\ UNCHANGED <<up, upFirst>>
                   ELSE /\ StdoutRoom
                        /\ vc' = [vc EXCEPT ![f.id].csock = "closed", ![f.id].cmap = FALSE]
                        /\ up' = Put(up, CloseFrame(f.id))
                        /\ upFirst' = First(upFirst, CloseFrame(f.id))
                        /\ UNCHANGED <<rpc, upClosed, rsrv>>
              ELSE /\ ok
                   /\ UNCHANGED <<up, upFirst, rpc, upClosed, rsrv>>
                   /\ IF f.type = FrameClose /\ known
                      THEN vc' = [vc EXCEPT ![f.id].csock = "closed", ![f.id].cmap = FALSE]
                      ELSE UNCHANGED vc
    /\ UNCHANGED <<rcfg, hpc, rfail, downClosed, downFirst, onInit, hreads, rreads, nextID,
                   target, provisioned, started, rsock>>
    /\ UNCHANGED notRelayVars

\* ReadFrame finds stdin at its end: every connection is closed and
\* ContainerSide returns nil
contEOF ==
    /\ rpc = "mux"
    /\ down = << >> /\ downClosed
    /\ ContainerReturns
    /\ vc' = ProcessGone(ContCloseAll(vc))
    /\ UNCHANGED <<rcfg, hpc, rfail, down, up, downClosed, downFirst, upFirst, onInit, hreads,
                   rreads, nextID, target, provisioned, started, rsock>>
    /\ UNCHANGED notRelayVars

\* the connection's goroutine: c.Read returns k bytes of the server, which
\* go out as one DATA frame
contConnRead(c, k) ==
    /\ rpc = "mux"
    /\ vc[c].cgo /\ vc[c].csock = "open"
    /\ k >= 1 /\ Len(vc[c].srvRead) + k <= Len(vc[c].srvOut)
    /\ StdoutRoom
    /\ LET chunk == Chunk(vc[c].srvOut, Len(vc[c].srvRead), k)
       IN  IF StdoutBroken
           THEN /\ vc' = [vc EXCEPT ![c].srvRead = @ \o chunk, ![c].cgo = FALSE]
                /\ UNCHANGED <<up, upFirst>>
           ELSE /\ vc' = [vc EXCEPT ![c].srvRead = @ \o chunk]
                /\ up' = Put(up, Msg(FrameData, c, "", chunk))
                /\ upFirst' = First(upFirst, Msg(FrameData, c, "", chunk))
    /\ UNCHANGED <<rcfg, hpc, rpc, rfail, down, downClosed, upClosed, downFirst, onInit, hreads,
                   rreads, nextID, target, provisioned, started, rsrv, rsock>>
    /\ UNCHANGED notRelayVars

\* the connection's goroutine: c.Read fails (the connection was closed on
\* this side, or all the server's bytes are read and the server has closed)
contConnReadErr(c) ==
    /\ rpc = "mux"
    /\ vc[c].cgo
    /\ \/ vc[c].csock = "closed"
       \/ Len(vc[c].srvRead) = Len(vc[c].srvOut)
    /\ StdoutRoom
    /\ vc' = [vc EXCEPT ![c].csock = "closed", ![c].cmap = FALSE, ![c].cgo = FALSE]
    /\ IF StdoutBroken
       THEN UNCHANGED <<up, upFirst>>
       ELSE /\ up' = Put(up, CloseFrame(c))
            /\ upFirst' = First(upFirst, CloseFrame(c))
    /\ UNCHANGED <<rcfg, hpc, rpc, rfail, down, downClosed, upClosed, downFirst, onInit, hreads,
                   rreads, nextID, target, provisioned, started, rsrv, rsock>>
    /\ UNCHANGED notRelayVars

\* ------------------------------------- a subprocess that is not RunStdio
\* the command writes something that is no INIT frame
otherWrites(f) ==
    /\ rpc = "other"
    /\ StdoutRoom
    /\ up' = Put(up, f)
    /\ upFirst' = First(upFirst, f)
    /\ rpc' = "otherWrote"
    /\ UNCHANGED <<rcfg, hpc, rfail, down, downClosed, upClosed, downFirst, onInit, hreads,
                   rreads, nextID, vc, target, provisioned, started, rsrv, rsock>>
    /\ UNCHANGED notRelayVars

\* the command exits
otherExits ==
    /\ rpc \in {"other", "otherWrote"}
    /\ rpc' = "exited"
    /\ upClosed' = TRUE
    /\ UNCHANGED <<rcfg, hpc, rfail, down, up, downClosed, downFirst, upFirst, onInit, hreads,
                   rreads, nextID, vc, target, provisioned, started, rsrv, rsock>>
    /\ UNCHANGED notRelayVars

\* the host process (HostSide, or whatever else feeds the remote end) is
\* killed, or the transport under the pipes is lost
hostKilled ==
    /\ hpc \in {"writeInit", "readAck", "mux", "absent"}
    /\ hpc' = "killed"
    /\ downClosed' = TRUE
    /\ vc' = [c \in VcIds |->
                [vc[c] EXCEPT !.hsock = IF @ = "none" THEN "none" ELSE "closed",
                              !.hmap = FALSE, !.hgo = FALSE]]
    /\ UNCHANGED <<rcfg, rpc, rfail, down, up, upClosed, downFirst, upFirst, onInit, hreads,
                   rreads, nextID, target, provisioned, started, rsrv, rsock>>
    /\ UNCHANGED notRelayVars

\* ------------------------------------------------------ specifications
\* what HostSide is given and what runs at the far end: RunStdio with or
\* without a commit of its own and with each kind of fallback, or a
\* command that is not codetap
RelayCfgs ==
    [hcommit : {"", CommitA}, rkind : {"stdio"}, rcommit : {"", CommitB},
     fallback : {"none", "empty", "commit", "error"}]
    \cup [hcommit : {"", CommitA}, rkind : {"other"}, rcommit : {""}, fallback : {"none"}]

\* what a command that is not codetap may write first
OtherOutput == {Garbage, Msg(FrameData, 1, "", <<7>>), Msg(FrameClose, 1, "", << >>)}

\* HostSide has spawned its subprocess.  One editor will connect; it and
\* the server send one byte each, so that a frame of every type follows
\* a handshake that succeeds.
InitRelay ==
    /\ rcfg \in RelayCfgs
    /\ hpc = "writeInit"
    /\ rpc = IF rcfg.rkind = "other" THEN "other"
             ELSE IF rcfg.rcommit = "" THEN "readInit" ELSE "provision"
    /\ rfail = ""
    /\ down = << >> /\ up = << >> /\ downClosed = FALSE /\ upClosed = FALSE
    /\ downFirst = << >> /\ upFirst = << >> /\ onInit = << >>
    /\ hreads = 0 /\ rreads = 0 /\ nextID = 0
    /\ vc = <<NewVc(1, 1, 1)>>
    /\ target = rcfg.rcommit /\ provisioned = "" /\ started = ""
    /\ rsrv = "none" /\ rsock \in BOOLEAN
    /\ SessionIdle /\ StartupIdle /\ CodecIdle

\* the handshake is over: HostSide sent INIT(CommitA), RunStdio provisioned
\* and started that commit and sent the ack, HostSide read it
\* and the remote end has taken the INIT frame.  In one behaviour the data
\* flows from the editors to the server or from the server to the editors.
InitMux ==
    /\ rcfg = [hcommit |-> CommitA, rkind |-> "stdio", rcommit |-> "", fallback |-> "none"]
    /\ hpc = "mux" /\ rpc = "mux" /\ rfail = ""
    /\ down = << >> /\ up = << >> /\ downClosed = FALSE /\ upClosed = FALSE
    /\ downFirst = <<Msg(FrameInit, 0, CommitA, << >>)>>
    /\ upFirst = <<Msg(FrameInit, 0, CommitA, << >>)>>
    /\ onInit = <<CommitA>>
    /\ hreads = 1 /\ rreads = 1 /\ nextID = 0
    /\ \/ vc = [c \in 1..NVc |-> NewVc(c, IF c = 1 THEN MaxBytes ELSE 1, 0)]
       \/ vc = [c \in 1..NVc |-> NewVc(c, 0, IF c = 1 THEN MaxBytes ELSE 1)]
    /\ target = CommitA /\ provisioned = CommitA /\ started = CommitA
    /\ rsrv = "up" /\ rsock = TRUE
    /\ SessionIdle /\ StartupIdle /\ CodecIdle

hostStep ==
    \/ hostAccept
    \/ \E ok \in BOOLEAN : hostDispatch(ok)
    \/ \E c \in VcIds : \E k \in 1..Len(vc[c].edOut) : hostConnRead(c, k)
    \/ \E c \in VcIds : hostConnReadErr(c)

contStep ==
    \/ \E ok \in BOOLEAN : contDispatch(ok)
    \/ \E c \in VcIds : \E k \in 1..Len(vc[c].srvOut) : contConnRead(c, k)
    \/ \E c \in VcIds : contConnReadErr(c)

\* the ends of the relay: the server exits, the host is lost
endStep ==
    \/ remoteServerExits
    \/ remoteServerErr
    \/ contEOF
    \/ hostReaderDone
    \/ hostKilled

\* the traffic of a relay whose two processes stay
NextMux == hostStep \/ contStep

handshakeStep ==
    \/ hostWriteInit
    \/ hostReadAck
    \/ readInit
    \/ \E ok \in BOOLEAN : remoteProvision(ok)
    \/ \E ok \in BOOLEAN : remoteStart(ok)
    \/ remoteServerListens
    \/ remoteWaitOk
    \/ remoteWaitTimeout
    \/ remoteWriteAck
    \/ \E f \in OtherOutput : otherWrites(f)
    \/ otherExits

NextRelay == handshakeStep \/ NextMux \/ endStep

SpecMux == InitMux /\ [][NextMux]_vars
SpecRelay == InitRelay /\ [][NextRelay]_vars

\* ------------------------------------------------------------------
\* C15: on every virtual connection, in both directions, the bytes written
\* to the far-side socket are at all times a prefix of the bytes read from
\* the near-side socket: nothing is lost, doubled or reordered, whatever
\* the other connections do.
C15_OrderedIntact ==
    \A c \in VcIds :
        /\ IsPrefix(vc[c].farWritten, vc[c].nearRead)
        /\ IsPrefix(vc[c].edWritten, vc[c].srvRead)

\* C15 witness: two connections are open at once; the first byte of the
\* first has reached the server, and the frame that follows it on the pipe
\* belongs to the second connection, with the next byte of the first behind
C15_Witness ==
    /\ Len(vc) >= 2
    /\ vc[1].cmap /\ vc[2].cmap
    /\ vc[1].farWritten = <<EditorByte(1, 1)>>
    /\ Len(down) = 2
    /\ down[1].type = FrameData /\ down[1].id = 2
    /\ down[2] = Msg(FrameData, 1, "", <<EditorByte(1, 2)>>)

\* ------------------------------------------------------------------
\* a step in which HostSide puts a frame that is not INIT on the pipe
HostSendsConnFrame ==
    /\ Len(down') = Len(down) + 1
    /\ down'[Len(down')].type # FrameInit

\* a step in which HostSide accepts an editor or touches a connection
HostTouchesConn ==
    \/ nextID' # nextID
    \/ \E c \in VcIds : \/ vc'[c].hsock # vc[c].hsock
                          \/ vc'[c].edWritten # vc[c].edWritten
                          \/ vc'[c].nearRead # vc[c].nearRead

\* C18: the first frame HostSide writes is INIT with the commit it was
\* given; it accepts no editor and writes no OPEN, DATA or CLOSE before it
\* has read one frame; when that frame cannot be read or is not INIT it
\* fails and no connection is ever accepted or served; otherwise onInit is
\* called once, with the payload of the ack, before any connection frame
\* is sent or dispatched.
C18_HostHandshakeOrder ==
    /\ [](downFirst # << >> => downFirst[1] = Msg(FrameInit, 0, rcfg.hcommit, << >>))
    /\ [][HostSendsConnFrame \/ HostTouchesConn
            => hreads >= 1 /\ Len(onInit) = 1 /\ hpc \in {"mux", "done", "killed"}]_vars
    /\ [][hpc = "readAck" /\ hpc' \notin {"readAck", "killed"}
            => IF up # << >> /\ Head(up).type = FrameInit
               THEN hpc' = "mux" /\ onInit' = <<Head(up).commit>>
               ELSE hpc' = "failed" /\ onInit' = onInit]_vars
    /\ [](hpc = "failed"
            => /\ nextID = 0 /\ onInit = << >>
               /\ \A c \in VcIds : vc[c].hsock = "none" /\ vc[c].edWritten = << >>
               /\ \A i \in 1..Len(down) : down[i].type = FrameInit)
    /\ [][hpc = "failed" => hpc' = "failed"]_vars
    /\ [](Len(onInit) <= 1)
    /\ [][onInit' # onInit => hpc = "readAck"]_vars

\* C18 witness: the handshake went through, onInit got the commit of the
\* ack, an editor was accepted and a byte of the server reached it
C18_Witness ==
    /\ hpc = "mux"
    /\ onInit = <<CommitA>>
    /\ nextID = 1
    /\ vc[1].edWritten # << >>
    /\ downFirst = <<Msg(FrameInit, 0, CommitA, << >>)>>

\* ------------------------------------------------------------------
\* RunStdio fed by something that is not HostSide: its stdin holds up to
\* two frames and gets no more
RunStdioInputs ==
    LET first == {Msg(FrameInit, 0, "", << >>), Msg(FrameInit, 0, CommitA, << >>),
                  Msg(FrameOpen, 1, "", << >>), Msg(FrameData, 1, "", <<7>>)}
    IN  {<< >>} \cup {<<f>> : f \in first}
        \cup {<<f, Msg(FrameOpen, 1, "", << >>)>> : f \in first}

InitRunStdio ==
    /\ rcfg \in {c \in RelayCfgs : c.rkind = "stdio" /\ c.hcommit = ""}
    /\ hpc = "absent"
    /\ rpc = IF rcfg.rcommit = "" THEN "readInit" ELSE "provision"
    /\ rfail = ""
    /\ down \in RunStdioInputs
    /\ up = << >> /\ downClosed = FALSE /\ upClosed = FALSE
    /\ downFirst = << >> /\ upFirst = << >> /\ onInit = << >>
    /\ hreads = 0 /\ rreads = 0 /\ nextID = 0
    /\ vc = <<NewVc(1, 1, 1)>>
    /\ target = rcfg.rcommit /\ provisioned = "" /\ started = ""
    /\ rsrv = "none" /\ rsock \in BOOLEAN
    /\ SessionIdle /\ StartupIdle /\ CodecIdle

NextRunStdio ==
    \/ readInit
    \/ \E ok \in BOOLEAN : remoteProvision(ok)
    \/ \E ok \in BOOLEAN : remoteStart(ok)
    \/ remoteServerListens
    \/ remoteServerExits
    \/ remoteWaitOk
    \/ remoteWaitTimeout
    \/ remoteWriteAck
    \/ remoteServerErr
    \/ contStep
    \/ contEOF
    \/ hostKilled

SpecRunStdio == InitRunStdio /\ [][NextRunStdio]_vars

\* startup failures of RunStdio that precede Provision
InitFailures ==
    {"read init frame", "expected FrameInit", "resolve commit", "no commit available"}

\* a step in which the remote end puts this frame on its stdout
RemoteWrites(f) == Len(up') = Len(up) + 1 /\ up'[Len(up')] = f

\* C19: without a commit of its own RunStdio reads one frame before its
\* loop; a frame that is not INIT fails the startup; a payload that is not
\* empty is the target commit; an empty one makes the fallback's result
\* the target; with no fallback, or an empty or failed one, startup fails
\* and no server was provisioned or started.  The INIT ack is written when
\* the server's socket exists, it is the first frame written and is
\* written once, and it carries the commit provisioned and started.
C19_RemoteInit ==
    /\ [](rreads <= 1)
    /\ []((initPhase /\ rpc # "readInit" /\ rfail # "read init frame") => rreads = 1)
    /\ [][rpc = "readInit" /\ rpc' # "readInit"
            => IF down = << >> \/ Head(down).type # FrameInit
               THEN rpc' = "failed"
               ELSE IF Head(down).commit # ""
               THEN rpc' = "provision" /\ target' = Head(down).commit
               ELSE IF rcfg.fallback = "commit"
               THEN rpc' = "provision" /\ target' = CommitC
               ELSE rpc' = "failed"]_vars
    /\ [](rfail \in InitFailures => rsrv = "none" /\ provisioned = "" /\ started = "")
    /\ [](rsrv # "none" => started = target /\ provisioned = target /\ target # "")
    /\ [][\A cm \in {"", CommitA, CommitB, CommitC} :
             RemoteWrites(Msg(FrameInit, 0, cm, << >>))
             => /\ initPhase /\ rsock /\ upFirst = << >>
                /\ cm = provisioned /\ cm = started /\ cm # ""]_vars
    /\ []((initPhase /\ upFirst # << >>) => upFirst[1].type = FrameInit)

\* C19 witness: the INIT frame had no commit, the fallback gave one, that
\* commit was provisioned and started, and the ack with it is written
C19_Witness ==
    /\ initPhase
    /\ rreads = 1
    /\ target = CommitC /\ provisioned = CommitC /\ started = CommitC
    /\ rsock
    /\ upFirst = <<Msg(FrameInit, 0, CommitC, << >>)>>
    /\ rpc = "mux"

\* ------------------------------------------------------------------
\* the steps the two programs take on their own; what is left of NextRelay
\* is the server or the host getting lost
ProgramStep ==
    \/ hostWriteInit
    \/ hostReadAck
    \/ readInit
    \/ \E ok \in BOOLEAN : remoteProvision(ok)
    \/ \E ok \in BOOLEAN : remoteStart(ok)
    \/ remoteServerListens
    \/ remoteWaitOk
    \/ remoteWaitTimeout
    \/ remoteWriteAck
    \/ remoteServerErr
    \/ contEOF
    \/ hostReaderDone
    \/ hostStep
    \/ contStep

\* neither program stops while it has a step to take
SpecRelayFair == InitRelay /\ [][NextRelay]_vars /\ WF_vars(ProgramStep)

\* C20: with RunStdio at the far end, with or without a commit of its
\* own, HostSide does not wait for the INIT ack forever: the wait ends with
\* the ack or with the failure of the remote end.
C20_HandshakeCompletes ==
    (rcfg.rkind = "stdio" /\ hpc = "readAck") ~> (hpc # "readAck")

\* the same for a RunStdio that has no commit of its own
HandshakeCompletesInitPhase ==
    (rcfg.rkind = "stdio" /\ initPhase /\ hpc = "readAck") ~> (hpc # "readAck")

\* ------------------------------------------------------------------
\* A subprocess that went through the handshake and serves connections
\* like ContainerSide, but also writes frames no ContainerSide would: OPEN
\* and INIT frames, and frames for a conn_id that was never allocated.
StrayFrames ==
    {Msg(FrameOpen, 1, "", << >>), Msg(FrameOpen, 2, "", << >>),
     Msg(FrameInit, 0, CommitB, << >>), Msg(FrameInit, 1, "", << >>),
     Msg(FrameData, 3, "", <<7>>), Msg(FrameClose, 3, "", << >>),
     Msg(FrameData, 0, "", <<7>>), Msg(FrameClose, 0, "", << >>)}

strayUp(f) ==
    /\ rpc = "mux"
    /\ ~upClosed
    /\ Len(up) < PipeCap
    /\ up' = Put(up, f)
    /\ UNCHANGED <<rcfg, hpc, rpc, rfail, down, downClosed, upClosed, downFirst, upFirst, onInit,
                   hreads, rreads, nextID, vc, target, provisioned, started, rsrv, rsock>>
    /\ UNCHANGED notRelayVars

\* two editors; the first sends a byte, the server answers the second
InitStray ==
    /\ rcfg = [hcommit |-> CommitA, rkind |-> "other", rcommit |-> "", fallback |-> "none"]
    /\ hpc = "mux" /\ rpc = "mux" /\ rfail = ""
    /\ down = << >> /\ up = << >> /\ downClosed = FALSE /\ upClosed = FALSE
    /\ downFirst = <<Msg(FrameInit, 0, CommitA, << >>)>>
    /\ upFirst = <<Msg(FrameInit, 0, CommitA, << >>)>>
    /\ onInit = <<CommitA>>
    /\ hreads = 1 /\ rreads = 1 /\ nextID = 0
    /\ vc = <<NewVc(1, 1, 0), NewVc(2, 0, 1)>>
    /\ target = CommitA /\ provisioned = CommitA /\ started = CommitA
    /\ rsrv = "up" /\ rsock = TRUE
    /\ SessionIdle /\ StartupIdle /\ CodecIdle

NextStray == NextMux \/ \E f \in StrayFrames : strayUp(f)

SpecStray == InitStray /\ [][NextStray]_vars

\* the connections whose table entry or socket this step changes, on the
\* host and on the remote end
HostChanged == {c \in VcIds : vc'[c].hmap # vc[c].hmap \/ vc'[c].hsock # vc[c].hsock}
ContChanged == {c \in VcIds : vc'[c].cmap # vc[c].cmap \/ vc'[c].csock # vc[c].csock}

\* the step takes a frame off the pipe / puts a frame on it
Takes(pipe) == Len(pipe') = Len(pipe) - 1
Puts(pipe) == Len(pipe') = Len(pipe) + 1

\* C21: a frame or socket event of connection X touches X alone.  A DATA
\* or CLOSE frame for a conn_id that is not in the table changes no table
\* and no socket and makes the endpoint write nothing, on both endpoints;
\* so do OPEN and INIT frames at the host; and no step of one connection
\* closes or unmaps another one.
C21_FrameIsolation ==
    /\ [][Takes(up) /\ Head(up).type \in {FrameData, FrameClose}
                    /\ ~(Head(up).id \in VcIds /\ vc[Head(up).id].hmap)
            => vc' = vc /\ down' = down /\ nextID' = nextID]_vars
    /\ [][Takes(up) /\ Head(up).type \in {FrameOpen, FrameInit}
            => vc' = vc /\ down' = down /\ nextID' = nextID]_vars
    /\ [][Takes(down) /\ Head(down).type \in {FrameData, FrameClose}
                      /\ ~(Head(down).id \in VcIds /\ vc[Head(down).id].cmap)
            => vc' = vc /\ ~Puts(up)]_vars
    /\ [][Takes(up) => HostChanged \subseteq {Head(up).id}]_vars
    /\ [][Takes(down) => ContChanged \subseteq {Head(down).id}]_vars
    /\ [][Cardinality(HostChanged \cup ContChanged) <= 1]_vars
    /\ [][\A c \in VcIds : Puts(down) /\ down'[Len(down')].type = FrameClose
                                       /\ down'[Len(down')].id = c
                            => HostChanged \subseteq {c}]_vars
    /\ [][\A c \in VcIds : Puts(up) /\ up'[Len(up')].type = FrameClose
                                     /\ up'[Len(up')].id = c
                            => ContChanged \subseteq {c}]_vars

\* C21 witness: the host has taken stray frames while both connections
\* were in its table; the first connection is since closed and unmapped on
\* both ends, the second is still mapped and open on both ends, and a CLOSE
\* for the first, now unmapped, waits on the pipe
C21_Witness ==
    /\ ~vc[1].hmap /\ vc[1].hsock = "closed" /\ ~vc[1].cmap /\ vc[1].csock = "closed"
    /\ vc[2].hmap /\ vc[2].hsock = "open" /\ vc[2].cmap /\ vc[2].csock = "open"
    /\ up # << >> /\ Head(up) = Msg(FrameClose, 1, "", << >>)

\* ------------------------------------------------------------------
\* The acceptor of HostSide with nextID at its width.  nextID is an
\* atomic.Uint32, here the pair of its 16-bit halves; vc is the set of
\* conn_ids in the conns table and down receives the OPEN and CLOSE frames.
\* accepts of one behaviour
MaxAccepts == 4

\* nextID.Add(1)
AddOne(u) ==
    IF u[2] = Half - 1 THEN <<(u[1] + 1) % Half, 0>> ELSE <<u[1], u[2] + 1>>

\* u < v for 32-bit values
LessU32(u, v) == u[1] < v[1] \/ (u[1] = v[1] /\ u[2] < v[2])

\* OPEN frames written so far
Opens == {i \in 1..Len(down) : down[i].type = FrameOpen}

\* Accept, id := nextID.Add(1), conns.Store(id, conn), the OPEN frame
acceptConn ==
    /\ hpc = "mux"
    /\ Cardinality(Opens) < MaxAccepts
    /\ nextID' = AddOne(nextID)
    /\ vc' = vc \cup {AddOne(nextID)}
    /\ down' = Put(down, Msg(FrameOpen, AddOne(nextID), "", << >>))
    /\ UNCHANGED <<rcfg, hpc, rpc, rfail, up, downClosed, upClosed, downFirst, upFirst, onInit,
                   hreads, rreads, target, provisioned, started, rsrv, rsock>>
    /\ UNCHANGED notRelayVars

\* the goroutine of connection id: read error, the CLOSE frame, conns.Delete
connEnds(id) ==
    /\ hpc = "mux"
    /\ id \in vc
    /\ vc' = vc \ {id}
    /\ down' = Put(down, Msg(FrameClose, id, "", << >>))
    /\ UNCHANGED <<rcfg, hpc, rpc, rfail, up, downClosed, upClosed, downFirst, upFirst, onInit,
                   hreads, rreads, nextID, target, provisioned, started, rsrv, rsock>>
    /\ UNCHANGED notRelayVars

\* values of nextID after 0, 65535, 2^32 - 3 and 2^32 - 2 accepts of this
\* run, every earlier connection closed again
CounterValues == {<<0, 0>>, <<0, Half - 1>>, <<Half - 1, Half - 3>>, <<Half - 1, Half - 2>>}

InitAccept ==
    /\ rcfg = [hcommit |-> CommitA, rkind |-> "stdio", rcommit |-> "", fallback |-> "none"]
    /\ hpc = "mux" /\ rpc = "mux" /\ rfail = ""
    /\ down = << >> /\ up = << >> /\ downClosed = FALSE /\ upClosed = FALSE
    /\ downFirst = <<Msg(FrameInit, 0, CommitA, << >>)>>
    /\ upFirst = <<Msg(FrameInit, 0, CommitA, << >>)>>
    /\ onInit = <<CommitA>>
    /\ hreads = 1 /\ rreads = 1
    /\ nextID \in CounterValues
    /\ vc = {}
    /\ target = CommitA /\ provisioned = CommitA /\ started = CommitA
    /\ rsrv = "up" /\ rsock = TRUE
    /\ SessionIdle /\ StartupIdle /\ CodecIdle

NextAccept == acceptConn \/ \E id \in vc : connEnds(id)

SpecAccept == InitAccept /\ [][NextAccept]_vars

\* C25: every accept gives the connection the conn_id that follows the one
\* given before it: it is larger than every conn_id given earlier in the
\* run, hence not in use and never given before, and it is not 0.
C25_ConnIdsFresh ==
    [][nextID' # nextID
        => /\ nextID' # <<0, 0>>
           /\ LessU32(nextID, nextID')
           /\ nextID' \notin vc
           /\ \A i \in Opens : LessU32(down[i].id, nextID')]_vars

\* ------------------------------------------------------------------
\* Teardown: two connections, the first carries a byte to the server, the
\* second a byte to its editor; each goroutine of the two endpoints runs
\* whenever it can.
InitTeardown ==
    /\ rcfg = [hcommit |-> CommitA, rkind |-> "stdio", rcommit |-> "", fallback |-> "none"]
    /\ hpc = "mux" /\ rpc = "mux" /\ rfail = ""
    /\ down = << >> /\ up = << >> /\ downClosed = FALSE /\ upClosed = FALSE
    /\ downFirst = <<Msg(FrameInit, 0, CommitA, << >>)>>
    /\ upFirst = <<Msg(FrameInit, 0, CommitA, << >>)>>
    /\ onInit = <<CommitA>>
    /\ hreads = 1 /\ rreads = 1 /\ nextID = 0
    /\ vc = <<NewVc(1, 1, 0), NewVc(2, 0, 1)>>
    /\ target = CommitA /\ provisioned = CommitA /\ started = CommitA
    /\ rsrv = "up" /\ rsock = TRUE
    /\ SessionIdle /\ StartupIdle /\ CodecIdle

MuxFairness ==
    /\ WF_vars(hostAccept)
    /\ WF_vars(\E ok \in BOOLEAN : hostDispatch(ok))
    /\ WF_vars(\E ok \in BOOLEAN : contDispatch(ok))
    /\ \A c \in {1, 2} :
        /\ WF_vars(hostConnReadErr(c) \/ \E k \in 1..Len(vc[c].edOut) : hostConnRead(c, k))
        /\ WF_vars(contConnReadErr(c) \/ \E k \in 1..Len(vc[c].srvOut) : contConnRead(c, k))

SpecTeardown == InitTeardown /\ [][NextMux]_vars /\ MuxFairness

\* connection c has ended on one endpoint: a socket of it is closed there,
\* or the remote end could not dial and has answered the OPEN with CLOSE
Ended(c) ==
    \/ vc[c].hsock = "closed"
    \/ vc[c].csock = "closed"
    \/ \E i \in 1..Len(up) : up[i] = Msg(FrameClose, c, "", << >>)

\* nothing is left of connection c: it is in neither table, no goroutine
\* serves it, and the sockets that were opened for it are closed
Gone(c) ==
    /\ ~vc[c].hmap /\ ~vc[c].hgo /\ vc[c].hsock = "closed"
    /\ ~vc[c].cmap /\ ~vc[c].cgo /\ vc[c].csock # "open"
    /\ \A i \in 1..Len(down) : down[i].id # c

\* a step in which endpoint-local events end connection c on the host
\* (remote end): the entry leaves the table while no CLOSE for c is taken
HostEnds(c) == vc[c].hmap /\ ~vc'[c].hmap /\ ~(Takes(up) /\ Head(up) = Msg(FrameClose, c, "", << >>))
ContEnds(c) == vc[c].cmap /\ ~vc'[c].cmap /\ ~(Takes(down) /\ Head(down) = Msg(FrameClose, c, "", << >>))

notDiscVars == <<sp, srv, exit, nrestart, prov, sessionVars, codecVars, relayVars, handoverVars, sideVars>>

\* store.ListSessionNames: the names that have a <name>.ctl.sock entry
Listed == ctlFile # None

\* a query that takes every <name>.ctl.sock entry for a session
QueryFindsEntry == ctlFile # None

\* QueryCtlInfo: the dial reaches a listener, which answers INFO with one line
QueryCtlInfo == isSocketAliveNow

\* Clean, line 440: the names are read from the directory
cleanListNames ==
    /\ disc.clean = "names"
    /\ disc' = [disc EXCEPT !.clean = IF Listed THEN "query" ELSE "done"]
    /\ UNCHANGED <<ctlFile, sockFile>>
    /\ UNCHANGED notDiscVars

\* Clean, lines 447-448: the INFO query of the name
cleanQuery ==
    /\ disc.clean = "query"
    /\ disc' = [disc EXCEPT !.clean = IF QueryCtlInfo THEN "done" ELSE "remove"]
    /\ UNCHANGED <<ctlFile, sockFile>>
    /\ UNCHANGED notDiscVars

\* Clean, lines 449-455: store.Remove(name) of a name whose query failed
cleanRemove ==
    /\ disc.clean = "remove"
    /\ sockFile' = None
    /\ disc' = [disc EXCEPT !.clean = "done"]
    /\ UNCHANGED ctlFile
    /\ UNCHANGED notDiscVars

\* List, line 416: the names are read from the directory
listNames ==
    /\ disc.list = "names"
    /\ disc' = [disc EXCEPT !.list = IF Listed THEN "query" ELSE "done"]
    /\ UNCHANGED <<ctlFile, sockFile>>
    /\ UNCHANGED notDiscVars

\* List, lines 423-433: the entry of the name carries the outcome of its INFO query
listQuery ==
    /\ disc.list = "query"
    /\ disc' = [disc EXCEPT !.list = "done",
                            !.entry = IF QueryCtlInfo THEN "alive" ELSE "dead"]
    /\ UNCHANGED <<ctlFile, sockFile>>
    /\ UNCHANGED notDiscVars

\* one Run of the name, one Clean and one List of its directory
InitDiscovery ==
    /\ sp = <<"provision">>
    /\ srv = <<"none">>
    /\ exit = <<"">>
    /\ nrestart = <<0>>
    /\ ctlFile \in {None, Stale}
    /\ sockFile \in {None, Stale}
    /\ disc = [clean |-> "names", list |-> "names", entry |-> "none"]
    /\ prov = ProvIdle
    /\ SessionIdle /\ CodecIdle /\ RelayIdle

cleanStep == cleanListNames \/ cleanQuery \/ cleanRemove

listStep == listNames \/ listQuery

NextDiscovery == NextStartup \/ cleanStep \/ listStep

SpecDiscovery == InitDiscovery /\ [][NextDiscovery]_vars

\* C22: Clean removes the sockets of a name only when the session of that name
\* is dead: at the step in which Clean calls store.Remove for a name, no
\* session of that name is alive, also when a Run of the name starts up or
\* restarts while Clean is at work
C22_CleanSparesAlive ==
    [][cleanRemove => ~QueryCtlInfo]_vars

\* the lifecycle of a Run is running: from the bind of its control socket to
\* the return of its lifecycle goroutine, restarts included
LifecycleRunning == \E p \in Procs : ListenerOpen(p)

\* C23: List has an entry for the name iff the name has a <name>.ctl.sock
\* entry, and the entry is marked alive iff the INFO query succeeded, which is
\* the case exactly when the lifecycle of the session is running at the time
\* of the query, also inside a restart; a name without an entry has no running
\* lifecycle
C23_ListReportsRunning ==
    [][/\ listQuery => ((disc'.entry = "alive") <=> LifecycleRunning)
       /\ listQuery => (disc'.entry = "dead") <=> ~LifecycleRunning
       /\ (listNames /\ ~Listed) => (~LifecycleRunning /\ disc'.entry = "none")]_vars

\* Runs that race for the name, and one List of the directory
InitListing ==
    /\ sp = [p \in 1..NProc |-> "provision"]
    /\ srv = [p \in 1..NProc |-> "none"]
    /\ exit = [p \in 1..NProc |-> ""]
    /\ nrestart = [p \in 1..NProc |-> 0]
    /\ ctlFile \in {None, Stale}
    /\ sockFile \in {None, Stale}
    /\ disc = [clean |-> "idle", list |-> "names", entry |-> "none"]
    /\ prov = ProvIdle
    /\ SessionIdle /\ CodecIdle /\ RelayIdle

NextListing == NextStartup \/ listStep

SpecListing == InitListing /\ [][NextListing]_vars

\* ---------------------------------------------------------------------------
\* Provisioning: Service.Provision step by step inside one recorded Run
\* ---------------------------------------------------------------------------

\* Provision, line 465: provision.IsProvisioned(commit)
provisionCheck(p, installed) ==
    /\ sp[p] = "isProvisioned"
    /\ sp' = [sp EXCEPT ![p] = IF installed THEN "stat" ELSE "download"]
    /\ prov' = Called("IsProvisioned", installed)
    /\ UNCHANGED <<ctlFile, sockFile, srv, exit, nrestart>>
    /\ UNCHANGED notCallVars

\* a Provision that goes on to the extractor whatever the download gave
provisionDownloadAnyway(p, ok) ==
    /\ sp[p] = "download"
    /\ sp' = [sp EXCEPT ![p] = "extract"]
    /\ prov' = Called("Download", ok)
    /\ UNCHANGED <<ctlFile, sockFile, srv, exit, nrestart>>
    /\ UNCHANGED notCallVars

\* Provision, lines 466-469: downloader.Download; Run returns its error (line 93)
provisionDownload(p, ok) ==
    /\ sp[p] = "download"
    /\ IF ok THEN sp' = [sp EXCEPT ![p] = "extract"] /\ UNCHANGED exit
             ELSE Returns(p, "download")
    /\ prov' = Called("Download", ok)
    /\ UNCHANGED <<ctlFile, sockFile, srv, nrestart>>
    /\ UNCHANGED notCallVars

\* Provision, lines 470-473: extractor.Extract; Run returns its error (line 93)
provisionExtract(p, ok) ==
    /\ sp[p] = "extract"
    /\ IF ok THEN sp' = [sp EXCEPT ![p] = "stat"] /\ UNCHANGED exit
             ELSE Returns(p, "extract")
    /\ prov' = Called("Extract", ok)
    /\ UNCHANGED <<ctlFile, sockFile, srv, nrestart>>
    /\ UNCHANGED notCallVars

\* one Run; the calls of its startup to its collaborators are recorded
InitProvision ==
    /\ sp = <<"isProvisioned">>
    /\ srv = <<"none">>
    /\ exit = <<"">>
    /\ nrestart = <<0>>
    /\ ctlFile \in {None, Stale}
    /\ sockFile \in {None, Stale}
    /\ disc = DiscIdle
    /\ prov = [on |-> TRUE, calls |-> << >>]
    /\ SessionIdle /\ CodecIdle /\ RelayIdle

NextProvision ==
    \/ \E p \in Procs, installed \in BOOLEAN : provisionCheck(p, installed)
    \/ \E p \in Procs, ok \in BOOLEAN : provisionDownload(p, ok)
    \/ \E p \in Procs, ok \in BOOLEAN : provisionExtract(p, ok)
    \/ \E p \in Procs : statCtlSocket(p)
    \/ \E p \in Procs : probeCtlSocket(p)
    \/ \E p \in Procs : removeCtlSocket(p)
    \/ \E p \in Procs : removeDataSocket(p)
    \/ \E p \in Procs, ok \in BOOLEAN : generateToken(p, ok)
    \/ \E p \in Procs, ok \in BOOLEAN : runnerStart(p, ok)
    \/ \E p \in Procs, takes \in BOOLEAN : serverCreatesSocket(p, takes)
    \/ \E p \in Procs, unlink \in BOOLEAN : serverExits(p, unlink)
    \/ \E p \in Procs : waitForSocketOk(p)
    \/ \E p \in Procs : waitForSocketTimeout(p)
    \/ \E p \in Procs, unlink \in BOOLEAN : stopAfterTimeout(p, unlink)
    \/ \E p \in Procs, ok \in BOOLEAN, unlink \in BOOLEAN : listenCtl(p, ok, unlink)
    \/ \E p \in Procs : serverDone(p)
    \/ \E p \in Procs, unlink \in BOOLEAN : restartRequested(p, unlink)
    \/ \E p \in Procs, ok \in BOOLEAN : restartProvision(p, ok)
    \/ \E p \in Procs : restartRemoveSocket(p)
    \/ \E p \in Procs, ok \in BOOLEAN : restartRunnerStart(p, ok)
    \/ \E p \in Procs : restartWaitOk(p)
    \/ \E p \in Procs : restartWaitTimeout(p)
    \/ \E p \in Procs, unlink \in BOOLEAN : restartStopNew(p, unlink)
    \/ \E p \in Procs : closeCtlListener(p)
    \/ \E p \in Procs : storeRemove(p)

SpecProvision == InitProvision /\ [][NextProvision]_vars

\* the calls made so far that went to one collaborator
CallsTo(what) == {i \in DOMAIN prov.calls : prov.calls[i][1] = what}

\* the call number i was made and succeeded
Succeeded(what, i) == i \in DOMAIN prov.calls /\ prov.calls[i] = <<what, TRUE>>

\* some call to the collaborator failed
Failed(what) == \E i \in CallsTo(what) : prov.calls[i][2] = FALSE

\* the error Run returns when the call fails: "download: ...", "extract: ...", "token: ..."
ErrorOf(what) ==
    IF what = "Download" THEN "download" ELSE IF what = "Extract" THEN "extract" ELSE "token"

\* provisioning has succeeded within the first i calls
ProvisionedBy(i) ==
    \/ Succeeded("IsProvisioned", 1) /\ i >= 1
    \/ Succeeded("Extract", 3) /\ i >= 3

\* C24: Provision calls neither downloader nor extractor when the commit is
\* installed; otherwise download comes right after the check and extract right
\* after a successful download, never after a failed one; the runner is started
\* only after provisioning and token generation have succeeded; a failed
\* download, extract or token generation makes Run return that error with no
\* server started
C24_ProvisioningOrder ==
    /\ Succeeded("IsProvisioned", 1) => (CallsTo("Download") = {} /\ CallsTo("Extract") = {})
    /\ \A i \in CallsTo("Download") : i = 2 /\ prov.calls[1] = <<"IsProvisioned", FALSE>>
    /\ \A i \in CallsTo("Extract") : i = 3 /\ Succeeded("Download", 2)
    /\ \A i \in CallsTo("Generate") : ProvisionedBy(i - 1)
    /\ \A i \in CallsTo("Start") : Succeeded("Generate", i - 1) /\ ProvisionedBy(i - 2)
    /\ srv[1] # "none" => \E i \in CallsTo("Start") : Succeeded("Start", i)
    /\ \A what \in {"Download", "Extract", "Generate"} :
          Failed(what) => /\ sp[1] = "returned"
                          /\ exit[1] = ErrorOf(what)
                          /\ srv[1] = "none"
                          /\ CallsTo("Start") = {}

\* C24: a Run that downloaded, extracted, generated its token and then started
\* its server, which is up
C24_Witness ==
    /\ prov.calls = <<<<"IsProvisioned", FALSE>>, <<"Download", TRUE>>, <<"Extract", TRUE>>,
                      <<"Generate", TRUE>>, <<"Start", TRUE>>>>
    /\ srv[1] = "up"

\* C24: a Run whose download failed has returned without calling the extractor
\* and without a server
C24_WitnessFailure ==
    /\ prov.calls = <<<<"IsProvisioned", FALSE>>, <<"Download", FALSE>>>>
    /\ sp[1] = "returned" /\ exit[1] = "download"

\* ---------------------------------------------------------------------------
\* The lifecycle goroutine of Service.Run, statement by statement: the select
\* on serverDone and restartCh, stop and drain, each step of doRestart, the
\* installation of the new wait/stop pair; next to it the CONNECT handlers of
\* the control socket and the code-server processes.  The clock stands still.
\* ---------------------------------------------------------------------------

\* what the lifecycle goroutine and the processes leave alone
farVars == <<startupVars, codecVars, relayVars, sideVars>>

\* the process has exited: its wait has returned, and the goroutine of lines
\* 166-168 has put the result on serverDone
Exited(i) == servers[i] \in {"exitedOk", "exitedErr"}

\* what wait() of the process returned: nil for a clean exit
WaitResult(i) == IF servers[i] = "exitedOk" THEN "nil" ELSE "exit error"

\* the processes that have not exited
Running == {i \in DOMAIN servers : ~Exited(i)}

\* a stop that sends no signal
NotStopped(i) == servers

\* stop(): SIGTERM to the process group of the server, if it still runs
Stopped(i) == IF servers[i] = "running" THEN [servers EXCEPT ![i] = "stopping"] ELSE servers

\* a code-server process exits, on its own or on the SIGTERM it was sent
processExits(i, clean) ==
    /\ i \in Running
    /\ servers' = [servers EXCEPT ![i] = IF clean THEN "exitedOk" ELSE "exitedErr"]
    /\ UNCHANGED <<cur, fn, runExit>>
    /\ UNCHANGED sessionVars
    /\ UNCHANGED farVars

\* handleConnect, line 379: the handler has reached the send on restartCh,
\* which blocks until the lifecycle goroutine receives
handlerSends(h) ==
    /\ pc[h] = "send"
    /\ pc' = [pc EXCEPT ![h] = "sending"]
    /\ UNCHANGED <<req, lastLine, reply, conn, leases, restartInProgress>>
    /\ UNCHANGED lifecycleVars
    /\ UNCHANGED outsideVars

\* the handler whose request the goroutine holds is woken from its send
Receives(h) ==
    /\ pc[h] = "sending"
    /\ pc' = [pc EXCEPT ![h] = "await"]
    /\ lreq' = h

\* the handlers blocked in the send on restartCh: the pending requests
Pending == {h \in Conns : pc[h] = "sending"}

\* a select that takes its default case whoever is blocked in the send
DefaultAlways == TRUE

\* the inner select of lines 173-188 takes default when no send is ready
NoSendReady == Pending = {}

\* lines 171-175: serverDone is received and a request is on restartCh
selectDonePending(h) ==
    /\ lpc = "select"
    /\ Exited(cur)
    /\ Receives(h)
    /\ lpc' = "rProvision"
    /\ UNCHANGED <<commit, token, startedAt, result, newToken, srvAlive, nextTok, listening,
                   starts, epochs>>
    /\ UNCHANGED handlerVars
    /\ UNCHANGED handoverVars
    /\ UNCHANGED farVars

\* lines 171-173 and 186-188: serverDone is received, nothing is on restartCh:
\* done <- sErr, and Run returns it
selectDoneDefault ==
    /\ lpc = "select"
    /\ Exited(cur)
    /\ NoSendReady
    /\ lpc' = "exited"
    /\ runExit' = WaitResult(cur)
    /\ UNCHANGED <<commit, token, startedAt, pc, result, lreq, newToken, srvAlive, nextTok,
                   listening, starts, epochs>>
    /\ UNCHANGED handlerVars
    /\ UNCHANGED <<servers, cur, fn>>
    /\ UNCHANGED farVars

\* line 190: a request is received from restartCh
selectRestart(h) ==
    /\ lpc = "select"
    /\ Receives(h)
    /\ lpc' = "stop"
    /\ UNCHANGED <<commit, token, startedAt, result, newToken, srvAlive, nextTok, listening,
                   starts, epochs>>
    /\ UNCHANGED handlerVars
    /\ UNCHANGED handoverVars
    /\ UNCHANGED farVars

\* line 192: stop()
stopOld ==
    /\ lpc = "stop"
    /\ servers' = Stopped(cur)
    /\ lpc' = "drain"
    /\ UNCHANGED <<commit, token, startedAt, pc, result, lreq, newToken, srvAlive, nextTok,
                   listening, starts, epochs>>
    /\ UNCHANGED handlerVars
    /\ UNCHANGED <<cur, fn, runExit>>
    /\ UNCHANGED farVars

\* a restart that goes on without the exit of the old server
DrainSkipped == TRUE

\* line 193: <-serverDone returns when the wait of the old server has returned
Drained == Exited(cur)

\* line 193: <-serverDone
drainOld ==
    /\ lpc = "drain"
    /\ Drained
    /\ lpc' = "rProvision"
    /\ UNCHANGED <<commit, token, startedAt, pc, result, lreq, newToken, srvAlive, nextTok,
                   listening, starts, epochs>>
    /\ UNCHANGED handlerVars
    /\ UNCHANGED handoverVars
    /\ UNCHANGED farVars

\* lines 175-178 and 194-197: doRestart returned an error: req.result <- err,
\* done <- "restart failed: ...", return
RestartFails(why) ==
    /\ result' = [result EXCEPT ![lreq] = why]
    /\ lpc' = "exited"
    /\ runExit' = "restart failed"

\* doRestart, lines 232-235: Provision
doProvision(ok) ==
    /\ lpc = "rProvision"
    /\ IF ok THEN lpc' = "rToken" /\ UNCHANGED <<result, runExit>>
             ELSE RestartFails("provision")
    /\ UNCHANGED <<commit, token, startedAt, pc, lreq, newToken, srvAlive, nextTok,
                   listening, starts, epochs>>
    /\ UNCHANGED handlerVars
    /\ UNCHANGED <<servers, cur, fn>>
    /\ UNCHANGED farVars

\* doRestart, lines 237-240: tokenGen.Generate
doToken(ok) ==
    /\ lpc = "rToken"
    /\ IF ok THEN /\ lpc' = "rStart"
                  /\ newToken' = nextTok
                  /\ nextTok' = nextTok + 1
                  /\ UNCHANGED <<result, runExit>>
             ELSE RestartFails("token") /\ UNCHANGED <<newToken, nextTok>>
    /\ UNCHANGED <<commit, token, startedAt, pc, lreq, srvAlive, listening, starts, epochs>>
    /\ UNCHANGED handlerVars
    /\ UNCHANGED <<servers, cur, fn>>
    /\ UNCHANGED farVars

\* doRestart, lines 242-247: the data socket is removed and runner.Start called
doStart(ok) ==
    /\ lpc = "rStart"
    /\ IF ok THEN /\ lpc' = "rWait"
                  /\ servers' = Append(servers, "running")
                  /\ starts' = Append(starts, <<req[lreq].commit, newToken>>)
                  /\ UNCHANGED <<result, runExit>>
             ELSE RestartFails("start") /\ UNCHANGED <<servers, starts>>
    /\ UNCHANGED <<commit, token, startedAt, pc, lreq, newToken, srvAlive, nextTok,
                   listening, epochs>>
    /\ UNCHANGED handlerVars
    /\ UNCHANGED <<cur, fn>>
    /\ UNCHANGED farVars

\* doRestart, line 249: waitForSocket finds the data socket, or gives up
doWait(ok) ==
    /\ lpc = "rWait"
    /\ lpc' = IF ok THEN "rUpdate" ELSE "rStopNew"
    /\ UNCHANGED <<commit, token, startedAt, pc, result, lreq, newToken, srvAlive, nextTok,
                   listening, starts, epochs>>
    /\ UNCHANGED handlerVars
    /\ UNCHANGED handoverVars
    /\ UNCHANGED farVars

\* doRestart, lines 250-251: newStop(), and the restart has failed
doStopNew ==
    /\ lpc = "rStopNew"
    /\ servers' = Stopped(Len(servers))
    /\ RestartFails("socket")
    /\ UNCHANGED <<commit, token, startedAt, pc, lreq, newToken, srvAlive, nextTok,
                   listening, starts, epochs>>
    /\ UNCHANGED handlerVars
    /\ UNCHANGED <<cur, fn>>
    /\ UNCHANGED farVars

\* doRestart, lines 254-260: the state update, one critical section
doUpdate ==
    /\ lpc = "rUpdate"
    /\ commit' = req[lreq].commit
    /\ token' = newToken
    /\ epochs' = epochs \cup { <<req[lreq].commit, FormatRFC3339(startedAt)>> }
    /\ fn' = Len(servers)
    /\ lpc' = "install"
    /\ UNCHANGED <<startedAt, pc, result, lreq, newToken, srvAlive, nextTok, listening, starts>>
    /\ UNCHANGED handlerVars
    /\ UNCHANGED <<servers, cur, runExit>>
    /\ UNCHANGED farVars

\* lines 180-184 and 199-203: wait and stop are taken from the state,
\* req.result <- nil, and the loop waits on the new server
installPair ==
    /\ lpc = "install"
    /\ cur' = fn
    /\ result' = [result EXCEPT ![lreq] = "ok"]
    /\ lreq' = None
    /\ lpc' = "select"
    /\ UNCHANGED <<commit, token, startedAt, pc, newToken, srvAlive, nextTok, listening,
                   starts, epochs>>
    /\ UNCHANGED handlerVars
    /\ UNCHANGED <<servers, fn, runExit>>
    /\ UNCHANGED farVars

\* CONNECT lines of one editor that goes back and forth between two commits
LinesHandover == { ConnectLine(cm, "c1") : cm \in HexCommits }

\* state after Service.Run has started the server and bound the control
\* socket (lines 113-160)
InitHandover ==
    /\ commit = Config.Commit
    /\ token = 1
    /\ startedAt = 0
    /\ leases = [id \in {"c1"} |-> None]
    /\ restartInProgress = FALSE
    /\ pc = [h \in 1..NConn |-> "idle"]
    /\ req = [h \in 1..NConn |-> NoReq]
    /\ lastLine = [h |-> None, line |-> << >>]
    /\ reply = NoReply
    /\ conn = [h \in 1..NConn |-> "open"]
    /\ result = [h \in 1..NConn |-> "none"]
    /\ lpc = "select"
    /\ lreq = None
    /\ newToken = 0
    /\ srvAlive = TRUE
    /\ nextTok = 2
    /\ listening = TRUE
    /\ starts = << <<Config.Commit, 1>> >>
    /\ epochs = { <<Config.Commit, FormatRFC3339(startedAt)>> }
    /\ servers = <<"running">>
    /\ cur = 1
    /\ fn = 0
    /\ runExit = ""
    /\ StartupIdle /\ CodecIdle /\ RelayIdle /\ SideIdle

handlerHandoverStep ==
    \/ \E h \in Conns, line \in LinesHandover : handleCtlConn(h, line)
    \/ \E h \in Conns : handlerSends(h)
    \/ \E h \in Conns : connectAfterRestart(h)
    \/ \E h \in Conns : monitorLease(h)
    \/ \E h \in Conns : peerClose(h)

lifecycleStep ==
    \/ \E h \in Conns : selectDonePending(h)
    \/ selectDoneDefault
    \/ \E h \in Conns : selectRestart(h)
    \/ stopOld
    \/ drainOld
    \/ \E ok \in BOOLEAN : doProvision(ok)
    \/ \E ok \in BOOLEAN : doToken(ok)
    \/ \E ok \in BOOLEAN : doStart(ok)
    \/ \E ok \in BOOLEAN : doWait(ok)
    \/ doStopNew
    \/ doUpdate
    \/ installPair
    \/ runReturns

processStep == \E i \in DOMAIN servers, clean \in BOOLEAN : processExits(i, clean)

NextHandover == handlerHandoverStep \/ lifecycleStep \/ processStep

SpecHandover == InitHandover /\ [][NextHandover]_vars

\* C27: the wait of the old server has returned before runner.Start is called
\* for its replacement, before the new wait/stop pair is stored in the state
\* and before the lifecycle goroutine takes it over, whichever case of the
\* select began the restart; so at most one code-server process of the session
\* runs at any time
C27_HandoverOrder ==
    /\ [](Cardinality(Running) <= 1)
    /\ [][/\ Len(servers') > Len(servers) => (Exited(cur) /\ Running = {})
          /\ fn' # fn => Exited(cur)
          /\ cur' # cur => (Exited(cur) /\ cur' = Len(servers))]_vars

\* C27: a restart is over, the lifecycle goroutine waits on the second server,
\* which runs, and the first has exited
C27_Witness ==
    /\ lpc = "select" /\ cur = 2 /\ fn = 2
    /\ servers[2] = "running" /\ Exited(1)

\* C28: when the lifecycle goroutine observes the exit of the server and no
\* request is pending on restartCh, Run returns what the wait of the server
\* returned (nil for a clean exit) and no server is started afterwards; when a
\* request is pending at that moment, the goroutine takes the request and goes
\* into the restart, and Run does not return the exit status
C28_ExitCases ==
    /\ [][(lpc = "select" /\ lpc' = "exited")
            => /\ Exited(cur) /\ Pending = {}
               /\ runExit' = WaitResult(cur)
               /\ servers' = servers]_vars
    /\ [][(lpc = "select" /\ lpc' # "select" /\ Exited(cur) /\ Pending # {})
            => /\ lpc' \in {"rProvision", "stop"}
               /\ lreq' \in Pending
               /\ runExit' = ""]_vars
    /\ [][(runExit # "" /\ runExit # "restart failed")
            => /\ servers' = servers /\ starts' = starts
               /\ runExit' = runExit /\ lpc' = "exited"]_vars
    /\ [](runExit \in {"nil", "exit error"} => (lpc = "exited" /\ runExit = WaitResult(cur)))

\* C28: the only server of the session has exited cleanly with no request
\* pending, and Run has returned nil
C28_Witness ==
    /\ servers = <<"exitedOk">> /\ runExit = "nil" /\ ~listening
    /\ \A h \in Conns : pc[h] \notin {"sending", "await"}

\* a server that exited while a request was pending has been replaced and
\* the session goes on with the new server
C28_RestartedAfterExit ==
    /\ servers = <<"exitedOk", "running">> /\ cur = 2 /\ lpc = "select" /\ runExit = ""

\* the lifecycle goroutine is inside doRestart
InDoRestart == lpc \in {"rProvision", "rToken", "rStart", "rWait", "rStopNew", "rUpdate"}

\* the restart of the handler has failed and its result waits for it
FailedFor(h) == pc[h] = "await" /\ result[h] \notin {"none", "ok"}

\* C29: a restart that fails at any step (provision, token, start, data socket)
\* gives its handler an error and makes Run return "restart failed"; commit and
\* token are those of the server that ran before the restart; no server is
\* left running, a replacement that was started has been sent SIGTERM; the
\* handler answers ERR restart failed with the error, closes the connection,
\* grants no lease and clears restart_in_progress
C29_RestartFailure ==
    /\ [][(InDoRestart /\ lpc' = "exited")
            => /\ result'[lreq] \in {"provision", "token", "start", "socket"}
               /\ runExit' = "restart failed"
               /\ commit' = commit /\ token' = token]_vars
    /\ [](runExit = "restart failed"
            => /\ lpc = "exited"
               /\ <<commit, token>> = starts[cur]
               /\ \A i \in DOMAIN servers : servers[i] # "running")
    /\ [][\A h \in Conns :
            (FailedFor(h) /\ pc'[h] # "await")
            => /\ reply' = [ErrReply(h, "restart failed") EXCEPT !.detail = result[h]]
               /\ conn'[h] = "closed"
               /\ pc'[h] = "done"
               /\ \A id \in ClientIds : leases'[id] # h
               /\ ~restartInProgress'
               /\ runExit = "restart failed"]_vars

\* C29: the replacement server never created its socket and was stopped, Run
\* has returned, and the handler has answered ERR restart failed
C29_Witness ==
    /\ runExit = "restart failed" /\ Len(servers) = 2 /\ servers[2] # "running"
    /\ reply.kind = "ERR" /\ reply.msg = "restart failed" /\ reply.detail = "socket"
    /\ ~restartInProgress /\ commit = CommitA /\ token = 1
    /\ conn[reply.h] = "closed"

\* the goroutines are scheduled: the lifecycle goroutine, each handler that
\* can go on, and a process that was sent SIGTERM exits
HandoverFairness ==
    /\ WF_vars(lifecycleStep)
    /\ \A h \in 1..NConn : WF_vars(handlerSends(h))
    /\ \A h \in 1..NConn : WF_vars(connectAfterRestart(h))
    /\ WF_vars(\E i \in DOMAIN servers, clean \in BOOLEAN :
                   servers[i] = "stopping" /\ processExits(i, clean))

SpecHandoverFair == InitHandover /\ [][NextHandover]_vars /\ HandoverFairness

\* C30: a handler that has set restart_in_progress hands its request to the
\* lifecycle goroutine, receives the result, answers its client with OK or
\* ERR restart failed and clears restart_in_progress: it does not stay blocked
\* in the send on restartCh, nor waiting for the result
C30_RestartAnswered ==
    \A h \in 1..NConn :
        (pc[h] = "send") ~> (pc[h] \in {"monitor", "done"} /\ result[h] = "none")

\* the part that holds: a request the lifecycle goroutine has received is
\* answered
ReceivedIsAnswered ==
    \A h \in 1..NConn :
        (pc[h] = "await") ~> (pc[h] \in {"monitor", "done"} /\ result[h] = "none")

\* ---------------------------------------------------------------------------
\* The shutdown of HostSide, statement by statement: the reader goroutine
\* ends and sends on done, the main goroutine closes the connections of the
\* table and calls cmd.Wait, the deferred calls remove the socket file and
\* close the listener; meanwhile the acceptor goroutine and the goroutines of
\* the connections go on.  The relay specifications above take the shutdown
\* as one step.
\* ---------------------------------------------------------------------------

\* editors that connect to the listener in one behaviour
NEditors == 2

\* what the shutdown leaves alone
notSideVars == <<sessionVars, startupVars, codecVars, relayVars, handoverVars>>

\* a connection the listener has not accepted yet; the editor end is open
NoConn == [stage |-> "none", sock |-> "none", mapped |-> FALSE, editor |-> "open"]

\* the sockets accepted by this HostSide that are open
OpenSocks == {c \in DOMAIN hs.conns : hs.conns[c].sock = "open"}

\* a write to the stdin pipe fails once the subprocess has exited
StdinWritable == hs.sub = "running"

\* the reader goroutine, lines 95-99: ReadFrame fails, at the end of the
\* stream (the subprocess has closed its stdout) or on bytes that are no
\* frame, and the error is sent on done
readerExits(garbage) ==
    /\ hs.reader = "reading"
    /\ garbage \/ hs.sub = "exited"
    /\ hs' = [hs EXCEPT !.reader = "ended"]
    /\ UNCHANGED rc
    /\ UNCHANGED notSideVars

\* line 166: <-done
receiveDone ==
    /\ hs.main = "done?"
    /\ hs.reader = "ended"
    /\ hs' = [hs EXCEPT !.main = "sweep"]
    /\ UNCHANGED rc
    /\ UNCHANGED notSideVars

\* lines 171-174: conns.Range closes the connections the table holds
sweepConns ==
    /\ hs.main = "sweep"
    /\ hs' = [hs EXCEPT !.main = "wait",
                        !.conns = [c \in DOMAIN hs.conns |->
                                      IF hs.conns[c].mapped
                                      THEN [hs.conns[c] EXCEPT !.sock = "closed"]
                                      ELSE hs.conns[c]]]
    /\ UNCHANGED rc
    /\ UNCHANGED notSideVars

\* a Wait that does not wait for the subprocess
WaitReturnsAtOnce == TRUE

\* cmd.Wait returns when the subprocess has exited
WaitReturns == hs.sub = "exited"

\* lines 176-178 and the deferred calls of lines 31-36: cmd.Wait returns, the
\* socket file is removed, the listener is closed, HostSide returns
waitAndReturn ==
    /\ hs.main = "wait"
    /\ WaitReturns
    /\ hs' = [hs EXCEPT !.main = "returned", !.listener = FALSE, !.file = FALSE]
    /\ UNCHANGED rc
    /\ UNCHANGED notSideVars

\* the subprocess exits; nothing HostSide does after the handshake makes it
subprocessExits ==
    /\ hs.sub = "running"
    /\ hs' = [hs EXCEPT !.sub = "exited"]
    /\ UNCHANGED rc
    /\ UNCHANGED notSideVars

\* the acceptor, line 123: Accept returns the next editor connection
acceptorAccepts(c) ==
    /\ hs.listener
    /\ hs.acc = 0
    /\ hs.conns[c].stage = "none"
    /\ \A d \in DOMAIN hs.conns : d < c => hs.conns[d].stage # "none"
    /\ hs' = [hs EXCEPT !.acc = c, !.conns[c].stage = "accepted", !.conns[c].sock = "open"]
    /\ UNCHANGED rc
    /\ UNCHANGED notSideVars

\* the acceptor, lines 127-128: conns.Store(id, conn)
acceptorStores(c) ==
    /\ hs.acc = c
    /\ hs.conns[c].stage = "accepted"
    /\ hs' = [hs EXCEPT !.conns[c].stage = "stored", !.conns[c].mapped = TRUE]
    /\ UNCHANGED rc
    /\ UNCHANGED notSideVars

\* the acceptor, lines 132-139: the OPEN frame is written and the goroutine of
\* the connection started; after a failed write the connection is closed
acceptorOpens(c) ==
    /\ hs.acc = c
    /\ hs.conns[c].stage = "stored"
    /\ hs' = IF StdinWritable
             THEN [hs EXCEPT !.acc = 0, !.conns[c].stage = "serving"]
             ELSE [hs EXCEPT !.acc = 0, !.conns[c].stage = "ended",
                             !.conns[c].mapped = FALSE, !.conns[c].sock = "closed"]
    /\ UNCHANGED rc
    /\ UNCHANGED notSideVars

\* the goroutine of a connection, lines 141-160: c.Read fails, because the
\* editor has closed its end or the socket was closed on this side; CLOSE is
\* written if the pipe takes it, and the connection is closed and unmapped
connReaderEnds(c) ==
    /\ hs.conns[c].stage = "serving"
    /\ hs.conns[c].editor = "closed" \/ hs.conns[c].sock = "closed"
    /\ hs' = [hs EXCEPT !.conns[c].stage = "ended", !.conns[c].mapped = FALSE,
                        !.conns[c].sock = "closed"]
    /\ UNCHANGED rc
    /\ UNCHANGED notSideVars

\* the editor closes its end of a connection
editorCloses(c) ==
    /\ hs.conns[c].stage # "none"
    /\ hs.conns[c].editor = "open"
    /\ hs' = [hs EXCEPT !.conns[c].editor = "closed"]
    /\ UNCHANGED rc
    /\ UNCHANGED notSideVars

\* HostSide after the handshake: the listener is bound, the subprocess runs,
\* the three goroutines are started
InitShutdown ==
    /\ hs = [main |-> "done?", reader |-> "reading", sub |-> "running",
             listener |-> TRUE, file |-> TRUE, acc |-> 0,
             conns |-> [c \in 1..NEditors |-> NoConn]]
    /\ rc = << >>
    /\ SessionAtRest /\ StartupIdle /\ CodecIdle /\ RelayIdle

mainStep == receiveDone \/ sweepConns \/ waitAndReturn

hostGoroutineStep ==
    \/ \E garbage \in BOOLEAN : readerExits(garbage)
    \/ \E c \in DOMAIN hs.conns : acceptorAccepts(c)
    \/ \E c \in DOMAIN hs.conns : acceptorStores(c)
    \/ \E c \in DOMAIN hs.conns : acceptorOpens(c)
    \/ \E c \in DOMAIN hs.conns : connReaderEnds(c)

worldStep ==
    \/ subprocessExits
    \/ \E c \in DOMAIN hs.conns : editorCloses(c)

NextShutdown == mainStep \/ hostGoroutineStep \/ worldStep

SpecShutdown == InitShutdown /\ [][NextShutdown]_vars

\* the goroutines of HostSide are scheduled; the subprocess and the editors
\* do as they like
SpecShutdownFair ==
    /\ InitShutdown /\ [][NextShutdown]_vars
    /\ WF_vars(mainStep) /\ WF_vars(hostGoroutineStep)

\* C31: when HostSide has returned, no socket it accepted is open, its
\* listener is closed and the socket file is removed
C31_ShutdownClosesAll ==
    hs.main = "returned" => (OpenSocks = {} /\ ~hs.listener /\ ~hs.file)

\* the part that holds: sockets in the table when the sweep runs are closed
\* by it, and the listener and its file are gone when HostSide has returned
SweepClosesMapped ==
    /\ [][sweepConns => \A c \in DOMAIN hs.conns : hs.conns[c].mapped => hs'.conns[c].sock = "closed"]_vars
    /\ [](hs.main = "returned" => (~hs.listener /\ ~hs.file))

\* C32: once the reader goroutine has ended, on the end of the stream or on
\* a frame-read error, HostSide returns
C32_ReadErrorEndsHost ==
    (hs.reader = "ended") ~> (hs.main = "returned")

\* the part that holds: HostSide returns once the subprocess has exited
ReturnsAfterExit ==
    (hs.reader = "ended" /\ hs.sub = "exited") ~> (hs.main = "returned")


\* ---------------------------------------------------------------------------
\* The end of RunStdio, step by step: ContainerSide returns into relayErr,
\* RunStdio's select takes it, stops the server and waits for wait()
\* ---------------------------------------------------------------------------

\* ReadFrame finds stdin at its end: conns.Range closes every connection
\* of the table and ContainerSide returns nil, which goes to relayErr
contEOFReturns ==
    /\ rpc = "mux"
    /\ down = << >> /\ downClosed
    /\ vc' = ContCloseAll(vc)
    /\ rpc' = "relayEnded"
    /\ UNCHANGED <<rcfg, hpc, rfail, down, up, downClosed, upClosed, downFirst, upFirst, onInit,
                   hreads, rreads, nextID, target, provisioned, started, rsrv, rsock>>
    /\ UNCHANGED notRelayVars

\* case err := <-relayErr: stop() signals the server's process group
selectRelayErr ==
    /\ rpc = "relayEnded"
    /\ rpc' = "waitServer"
    /\ rsrv' = IF rsrv \in {"starting", "up"} THEN "stopping" ELSE rsrv
    /\ UNCHANGED <<rcfg, hpc, rfail, down, up, downClosed, upClosed, downFirst, upFirst, onInit,
                   hreads, rreads, nextID, vc, target, provisioned, started, rsock>>
    /\ UNCHANGED notRelayVars

\* the server that was told to stop exits
remoteServerStops ==
    /\ rsrv = "stopping"
    /\ rsrv' = "dead"
    /\ UNCHANGED <<rcfg, hpc, rpc, rfail, down, up, downClosed, upClosed, downFirst, upFirst,
                   onInit, hreads, rreads, nextID, vc, target, provisioned, started, rsock>>
    /\ UNCHANGED notRelayVars

\* the receive from serverErr is satisfied anyway
ServerErrAlways == TRUE

\* serverErr holds the result of wait(): the server process has exited
ServerErrReady == rsrv = "dead"

\* <-serverErr after stop(), or case err := <-serverErr when the server
\* went away by itself while the relay ended: RunStdio returns
remoteReturns ==
    /\ rpc \in {"relayEnded", "waitServer"}
    /\ ServerErrReady
    /\ rpc' = "exited"
    /\ upClosed' = TRUE
    /\ vc' = ProcessGone(vc)
    /\ UNCHANGED <<rcfg, hpc, rfail, down, up, downClosed, downFirst, upFirst, onInit, hreads,
                   rreads, nextID, target, provisioned, started, rsrv, rsock>>
    /\ UNCHANGED notRelayVars

remoteEndStep ==
    \/ contEOFReturns
    \/ selectRelayErr
    \/ remoteServerStops
    \/ remoteReturns
    \/ remoteServerExits
    \/ remoteServerErr
    \/ hostKilled

NextRemoteEnd == NextMux \/ remoteEndStep

\* the relay runs with two connections, as in the teardown; at some time
\* the host goes away
SpecRemoteEnd == InitTeardown /\ [][NextRemoteEnd]_vars

\* ContainerSide has returned nil on the end of its input
RelayEndedOnEOF == rpc \in {"relayEnded", "waitServer"} \/ (rpc = "exited" /\ rfail = "" /\ down = << >>)

\* C33: when the remote endpoint's input stream ends, it closes every
\* mapped server-socket connection and returns without error (no socket to
\* the server is open once it has returned); RunStdio then stops the
\* server, which is not left up after the select has taken the relay's
\* result, and returns only after the server process has exited.
C33_RemoteEndOfInput ==
    /\ [](rpc \in {"relayEnded", "waitServer"}
             => rfail = "" /\ \A c \in VcIds : vc[c].csock # "open")
    /\ [][contEOFReturns => \A c \in VcIds : vc[c].cmap => vc'[c].csock = "closed"]_vars
    /\ [](rpc = "waitServer" => rsrv \notin {"starting", "up"})
    /\ [](rpc = "exited" => rsrv = "dead")

\* C33 witness: the input ended while a connection that had carried bytes
\* to the server was open; ContainerSide closed it and returned nil, the
\* select has taken that result and stopped the server, and RunStdio is
\* waiting for the server's exit
C33_Witness ==
    /\ rpc = "waitServer" /\ rsrv = "stopping" /\ rfail = ""
    /\ \E c \in VcIds : vc[c].csock = "closed" /\ vc[c].farWritten # << >>


\* ---------------------------------------------------------------------------
\* looksLikeText on inputs of every length up to MaxText and every number
\* of printable bytes
\* ---------------------------------------------------------------------------

\* the longest input looked at
MaxText == 21

\* bytes the loop of looksLikeText counts: the ends of 0x20..0x7E, a
\* letter, LF, CR and TAB; and bytes it does not count
PrintableBytes == <<32, 126, 69, 10, 13, 9>>
OtherBytes == <<0, 31, 127, 255, 11>>

\* n bytes of which the first p are printable
TextInput(n, p) ==
    [i \in 1..n |-> IF i <= p THEN PrintableBytes[(i % Len(PrintableBytes)) + 1]
                    ELSE OtherBytes[(i % Len(OtherBytes)) + 1]]

\* the same bytes, the printable ones last
TextInputReversed(n, p) == [i \in 1..n |-> TextInput(n, p)[n + 1 - i]]

TextInputs ==
    {TextInput(n, p) : n \in 0..MaxText, p \in 0..MaxText}
    \cup {TextInputReversed(n, p) : n \in 0..MaxText, p \in 0..MaxText}

InitText ==
    /\ wire \in TextInputs
    /\ wclosed = TRUE
    /\ todo = << >> /\ wpc = << >> /\ mu = None
    /\ sent = << >> /\ rcvd = << >> /\ rerr = NoErr
    /\ SessionIdle /\ StartupIdle /\ RelayIdle

\* looksLikeText(data) is called on the bytes and its result is kept
callLooksLikeText ==
    /\ rerr = NoErr
    /\ rerr' = [NoErr EXCEPT !.kind = IF looksLikeText(wire) THEN "text" ELSE "binary"]
    /\ UNCHANGED <<wire, wclosed, todo, wpc, mu, sent, rcvd>>
    /\ UNCHANGED notCodecVars

NextText == callLooksLikeText

SpecText == InitText /\ [][NextText]_vars

\* the bytes of data that are printable ASCII, LF, CR or TAB
PrintableCount(data) ==
    Cardinality({i \in 1..Len(data) : data[i] \in (32..126) \cup {10, 13, 9}})

\* C34: looksLikeText(data) is true exactly when data is non-empty and
\* strictly more than 80% of its bytes are printable ASCII or LF, CR, TAB,
\* that is 5 * printable > 4 * len(data).
C34_TextThreshold ==
    rerr.kind # "none" =>
        (rerr.kind = "text" <=> (Len(wire) # 0 /\ 5 * PrintableCount(wire) > 4 * Len(wire)))

\* what the integer division of line 116 decides: the whole percentage is
\* at least 81
TextIffWholePercent ==
    rerr.kind # "none" =>
        (rerr.kind = "text" <=> (Len(wire) # 0 /\ 100 * PrintableCount(wire) >= 81 * Len(wire)))


\* ---------------------------------------------------------------------------
\* The control socket of `codetap relay`: handleRelayCtlConn, one goroutine
\* per connection, and the main goroutine of relayCmd
\* ---------------------------------------------------------------------------

\* control connections that are accepted
NCtl == 2

\* the lines a client sends: CONNECT with four tokens, CONNECT with three,
\* and a line that is no command
RelayLines ==
    {[cmd |-> "CONNECT", commit |-> k] : k \in {CommitA, CommitB}}
    \cup {[cmd |-> "CONNECT3", commit |-> ""], [cmd |-> "other", commit |-> ""]}

NoCtl == [pc |-> "read", commit |-> "", conn |-> "open", client |-> "connected", reply |-> "",
          about |-> ""]

\* handler c does a step: only its entry of rc.h changes
CtlStep(c, entry) == rc' = [rc EXCEPT !.h[c] = entry]

\* reader.ReadString and the switch on the line
relayReadLine(c, line) ==
    /\ rc.h[c].pc = "read"
    /\ rc.h[c].client = "connected"
    /\ IF line.cmd = "CONNECT"
       THEN CtlStep(c, [rc.h[c] EXCEPT !.pc = "once", !.commit = line.commit])
       ELSE CtlStep(c, [rc.h[c] EXCEPT !.pc = "done", !.conn = "closed",
                           !.reply = IF line.cmd = "CONNECT3" THEN "ERR invalid CONNECT syntax"
                                     ELSE "ERR unknown command"])
    /\ UNCHANGED hs
    /\ UNCHANGED notSideVars

\* the function of commitOnce.Do runs for every caller
OnceAlways == TRUE

\* commitOnce.Do runs its function for the first caller only
OnceFirst == ~rc.once

\* commitOnce.Do(func() { state.commit = clientCommit; commitCh <- clientCommit })
relayOnce(c) ==
    /\ rc.h[c].pc = "once"
    /\ IF OnceFirst
       THEN rc' = [rc EXCEPT !.h[c].pc = "check", !.once = TRUE,
                             !.commit = rc.h[c].commit,
                             !.ch = Append(@, rc.h[c].commit),
                             !.sets = Append(@, rc.h[c].commit)]
       ELSE CtlStep(c, [rc.h[c] EXCEPT !.pc = "check"])
    /\ UNCHANGED hs
    /\ UNCHANGED notSideVars

\* established := state.commit, the comparison and the reply
relayCheck(c) ==
    /\ rc.h[c].pc = "check"
    /\ LET established == rc.commit
       IN  IF established # "" /\ rc.h[c].commit # established
           THEN CtlStep(c, [rc.h[c] EXCEPT !.pc = "done", !.conn = "closed",
                               !.reply = "ERR version mismatch", !.about = established])
           ELSE CtlStep(c, [rc.h[c] EXCEPT !.pc = "hold", !.reply = "OK"])
    /\ UNCHANGED hs
    /\ UNCHANGED notSideVars

\* conn.Read(buf) with a buffer of one byte returns: the client has closed
\* the connection, or has sent a byte; conn.Close()
relayHoldEnds(c) ==
    /\ rc.h[c].pc = "hold"
    /\ rc.h[c].client \in {"gone", "sent"}
    /\ CtlStep(c, [rc.h[c] EXCEPT !.pc = "done", !.conn = "closed"])
    /\ UNCHANGED hs
    /\ UNCHANGED notSideVars

\* the client closes its end
relayClientCloses(c) ==
    /\ rc.h[c].client \in {"connected", "sent"}
    /\ rc.h[c].pc # "read"
    /\ CtlStep(c, [rc.h[c] EXCEPT !.client = "gone"])
    /\ UNCHANGED hs
    /\ UNCHANGED notSideVars

\* the client writes a byte to the connection it was answered OK on
relayClientSends(c) ==
    /\ rc.h[c].client = "connected"
    /\ rc.h[c].reply = "OK"
    /\ CtlStep(c, [rc.h[c] EXCEPT !.client = "sent"])
    /\ UNCHANGED hs
    /\ UNCHANGED notSideVars

\* clientCommit := <-commitCh; relayMeta.commit = clientCommit
relayMainReceives ==
    /\ rc.main = "recv"
    /\ rc.ch # << >>
    /\ rc' = [rc EXCEPT !.main = "host", !.commit = Head(rc.ch), !.ch = Tail(@)]
    /\ UNCHANGED hs
    /\ UNCHANGED notSideVars

\* HostSide calls onInit with the commit of the INIT ack: the commit of
\* the INIT frame it sent when RunStdio is at the far end
relayOnInit(acked) ==
    /\ rc.main = "host"
    /\ rc' = [rc EXCEPT !.main = "acked", !.commit = acked]
    /\ UNCHANGED hs
    /\ UNCHANGED notSideVars

InitRelayCtl ==
    /\ rc = [commit |-> "", once |-> FALSE, ch |-> << >>, sets |-> << >>, main |-> "recv",
             h |-> [c \in 1..NCtl |-> NoCtl]]
    /\ hs = << >>
    /\ SessionAtRest /\ StartupIdle /\ CodecIdle /\ RelayIdle

relayHandlerStep ==
    \/ \E c \in 1..NCtl : \E line \in RelayLines : relayReadLine(c, line)
    \/ \E c \in 1..NCtl : relayOnce(c)
    \/ \E c \in 1..NCtl : relayCheck(c)
    \/ \E c \in 1..NCtl : relayHoldEnds(c)

relayClientStep ==
    \/ \E c \in 1..NCtl : relayClientCloses(c)
    \/ \E c \in 1..NCtl : relayClientSends(c)

relayMainStep ==
    \/ relayMainReceives
    \/ relayOnInit(rc.commit)

NextRelayCtl == relayHandlerStep \/ relayClientStep \/ relayMainStep

SpecRelayCtl == InitRelayCtl /\ [][NextRelayCtl]_vars

\* handler c answers in this step
RelayAnswers(c) == rc.h[c].reply = "" /\ rc'.h[c].reply # ""

\* the first well-formed CONNECT establishes the commit, and one commit
\* only is ever established by the CONNECTs
RelayOneCommit ==
    /\ [][\A c \in 1..NCtl :
            (rc.h[c].pc = "once" /\ rc'.h[c].pc = "check" /\ rc.commit = "")
                => rc'.commit = rc.h[c].commit]_vars
    /\ [](Len(rc.sets) <= 1)
    /\ [](\A c \in 1..NCtl : rc.h[c].pc \in {"check", "hold"} => rc.commit # "")

\* a CONNECT for the established commit is answered OK, one for another
\* commit ERR version mismatch with the established commit, and the
\* answer leaves the commit as it is
RelayReplies ==
    [][\A c \in 1..NCtl :
         (RelayAnswers(c) /\ rc.h[c].pc = "check") =>
            /\ rc'.commit = rc.commit
            /\ rc'.sets = rc.sets
            /\ IF rc.h[c].commit = rc.commit
               THEN rc'.h[c].reply = "OK" /\ rc'.h[c].conn = "open"
               ELSE /\ rc'.h[c].reply = "ERR version mismatch"
                    /\ rc'.h[c].about = rc.commit
                    /\ rc'.h[c].conn = "closed"]_vars

\* the connection of a CONNECT that was answered OK is closed by the
\* handler only after the client has closed its end
RelayHeldUntilDisconnect ==
    [][\A c \in 1..NCtl :
         (rc.h[c].reply = "OK" /\ rc.h[c].conn = "open" /\ rc'.h[c].conn = "closed")
            => rc.h[c].client = "gone"]_vars

\* C35: the first well-formed CONNECT establishes the session commit and
\* concurrent first CONNECTs establish exactly one; a CONNECT whose commit
\* equals the established one is answered OK (no token) and held open until
\* the client disconnects; a CONNECT with another commit is answered
\* `ERR version mismatch: <commit> running in relay mode` and never changes
\* the commit.
C35_RelayControlSocket == RelayOneCommit /\ RelayReplies /\ RelayHeldUntilDisconnect

\* the connection that was answered OK is closed by the handler only after
\* the client has closed its end or has sent a byte
RelayHeldUntilRead ==
    [][\A c \in 1..NCtl :
         (rc.h[c].reply = "OK" /\ rc.h[c].conn = "open" /\ rc'.h[c].conn = "closed")
            => rc.h[c].client \in {"gone", "sent"}]_vars

\* everything of C35 but the end of the lease connection
RelayCtlNegotiation == RelayOneCommit /\ RelayReplies /\ RelayHeldUntilRead


\* ---------------------------------------------------------------------------
\* Replies and leases next to a restart (the stepwise lifecycle goroutine)
\* ---------------------------------------------------------------------------

\* a CONNECT is answered OK in this step
AnsweredOk == reply' # reply /\ reply'.kind = "OK"

\* the lifecycle goroutine has called stop() on the old server, or has
\* seen its exit, and waitForSocket has not yet found the data socket of
\* the replacement
InHandover == lpc \in {"drain", "rProvision", "rToken", "rStart", "rWait", "rStopNew"}

\* a server that was started with token t and that the session has not
\* stopped (it may have exited on its own just now)
ServerNotStopped(t) ==
    \E i \in DOMAIN servers : i <= Len(starts) /\ starts[i][2] = t /\ servers[i] # "stopping"

\* C36: an `OK <token>` reply is only sent while the server it refers to
\* is up: the returned token is that of a server the session started and
\* has not stopped, and no OK is sent between the stop of the old server
\* for a restart and the appearance of the replacement's data socket.
C36_OkOnlyWhileServerUp ==
    [][AnsweredOk => (~InHandover /\ ServerNotStopped(reply'.token))]_vars

\* the OK to the requester of a restart is sent while the replacement runs
\* or after its own exit, never inside the hand-over
OkAfterRestartOutsideHandover ==
    [][\A h \in Conns :
         (AnsweredOk /\ reply'.h = h /\ pc[h] = "await")
            => (~InHandover /\ ServerNotStopped(reply'.token))]_vars


\* connection h is answered that its CONNECT is rejected for the version
\* or for a restart under way
ConnectRejected(h) ==
    /\ reply' # reply /\ reply'.h = h /\ reply'.kind = "ERR"
    /\ reply'.msg \in {"version mismatch", "restart already in progress"}

\* C37: a rejected CONNECT has no effect on leases: when a CONNECT is
\* answered `ERR version mismatch` or `ERR restart already in progress`,
\* the lease table after the reply equals the table before the request,
\* the requester's own lease included, and no lease connection is closed.
C37_RejectionKeepsLeases ==
    [][\A h \in Conns :
         ConnectRejected(h) => /\ leases' = leases
                        /\ \A g \in Conns : HoldsLease(g) => conn'[g] = conn[g]]_vars

\* C37, as the code has it: the rejected CONNECT leaves the leases of all
\* other client_ids and their connections as they are; the lease held
\* under the requester's own client_id is dropped and its connection
\* closed before the request is rejected.
C37_RejectionDropsOwnLeaseOnly ==
    [][\A h \in Conns :
         ConnectRejected(h) =>
            LET id == LastFields'[4]
            IN  /\ lastLine'.h = h
                /\ leases' = [leases EXCEPT ![id] = None]
                /\ \A g \in Conns \ {h} :
                     conn'[g] # conn[g] => (leases[id] = g /\ conn'[g] = "closed")
                /\ leases[id] # None => conn'[leases[id]] = "closed"]_vars

\* C37 witness: a client that held a lease asked for another commit while
\* another client held a lease too: it is answered version mismatch, its
\* own lease is gone and the connection of that lease is closed (its
\* monitor has not run yet), the other client's lease is in the table
C37_Witness ==
    \E h \in Conns, g \in Conns :
        /\ g # h
        /\ reply.h = h /\ reply.kind = "ERR" /\ reply.msg = "version mismatch"
        /\ lastLine.h = h /\ pc[h] = "done"
        /\ pc[g] = "monitor" /\ conn[g] = "closed" /\ req[g].id = LastFields[4]
        /\ leases[LastFields[4]] = None
        /\ \E id \in ClientIds : leases[id] # None


\* ---------------------------------------------------------------------------
\* The last frame of a connection
\* ---------------------------------------------------------------------------

\* the endpoint that writes to pipe q puts a DATA or CLOSE frame of
\* connection c on it while a CLOSE of c that it wrote before is still in
\* the pipe
WritesAfterClose(q, c) ==
    /\ Puts(q)
    /\ q'[Len(q')].id = c
    /\ q'[Len(q')].type \in {FrameData, FrameClose}
    /\ \E i \in 1..Len(q) : q[i] = CloseFrame(c)

\* C38: CLOSE is the last frame for a connection: once an endpoint has
\* written CLOSE(X) to the pipe it writes no further DATA(X) and no second
\* CLOSE(X), on the host (pipe down) and on the remote end (pipe up).
C38_CloseIsLastFrame ==
    [][\A c \in VcIds : ~WritesAfterClose(down, c) /\ ~WritesAfterClose(up, c)]_vars

\* on the host CLOSE is the last frame of a connection: the reader
\* goroutine writes no frame, and the connection's goroutine returns after
\* its CLOSE
HostCloseIsLastFrame ==
    [][\A c \in VcIds : ~WritesAfterClose(down, c)]_vars


\* ---------------------------------------------------------------------------
\* The life of a lease
\* ---------------------------------------------------------------------------

\* the entry of client_id id, which holds connection h, leaves the table
\* or goes to another connection
LeaseEnds(h, id) == leases[id] = h /\ leases'[id] # h

\* the lease of connection h under id is displaced by a CONNECT of the
\* same client_id: the handler closes h or stores another connection
Displaced(h, id) == conn'[h] = "closed" \/ leases'[id] # None

\* C39: a granted lease stays in the lease table for as long as its
\* control connection is open and has not been displaced by a CONNECT of
\* the same client_id: the entry is removed only after the connection was
\* closed by the client, failed, or was displaced; bytes sent by the client
\* on the lease connection do not end the lease.
C39_LeaseLastsWhileOpen ==
    [][\A h \in Conns, id \in ClientIds :
         LeaseEnds(h, id) => (conn[h] \in {"peerClosed", "closed"} \/ Displaced(h, id))]_vars

\* the entry is removed only after the read of the monitor has returned
\* (the client has closed the connection or has sent a byte) or the lease
\* was displaced
LeaseLastsUntilReadReturns ==
    [][\A h \in Conns, id \in ClientIds :
         LeaseEnds(h, id) => (conn[h] # "open" \/ Displaced(h, id))]_vars

====
